---- MODULE Spec2Model ----
(***************************************************************************)
(* A model of the IETF session engine of rs/moq: the publisher's           *)
(* two-slot group scheduler (Publisher::run_track), the stream priority    *)
(* derivation (stream_priority), the request id allocator                  *)
(* (Control::request_id) and the session's control loop (session.rs).      *)
(*                                                                         *)
(* The module holds several specifications over one set of variables; the  *)
(* variables a specification does not use stay at their idle values.       *)
(***************************************************************************)
EXTENDS Integers, Sequences, FiniteSets, TLC

VARIABLES
    \* ---- Publisher::run_track (publisher.rs:120-206) ----
    pc,            \* where run_track is: "run", or its result "ok" / "err" / "panic"
    old_group,     \* Option<future>: the index in `tasks` of the future held
    new_group,     \* Option<future>
    old_sequence,  \* Option<u64>
    new_sequence,  \* Option<u64>
    tasks,         \* every run_group future created so far, in creation order
    opened,        \* group_id of every unidirectional stream opened, in order
    track,         \* the TrackConsumer: "live", "ended" (next_group gives None), "error"
    cancel,        \* the oneshot receiver: "pending" or "fired"
    arrived,       \* history: the sequences next_group() has yielded, in order
    \* ---- stream_priority (publisher.rs:316-319) ----
    prio_in,       \* the inputs <<p1, s1, p2, s2>>
    prio_out,      \* Option<<<i32, i32>>>: the two priorities computed
    \* ---- Control::request_id (control.rs:6-34), one Control per endpoint ----
    request_id,    \* [side -> u64]: the AtomicU64 of the side's Control
    got,           \* [side -> [caller -> Option<u64>]]: the id a caller holds
    issued,        \* history: [side -> the ids returned, in order]
    \* ---- the session of one endpoint (session.rs), its Publisher ----
    session,       \* "running" (run's select! is pending) or "closed"
    returned,      \* history: [task, result] of every task of run that returned
    closes,        \* history: the arguments of every session.close() call
    wire_in,       \* history: the control frames the peer has sent, in order
    decoded,       \* how many of them run_control_read has read
    reader,        \* run_control_read: "decode" (session.rs:69-71) or "dispatch"
    handled,       \* history: the index of every frame dispatched, in order
    queue,         \* the unbounded mpsc channel of Control (tx -> rx)
    written,       \* history: the messages run_control_write put on the stream
    sent,          \* history: the messages Control::send enqueued, in order
    subscribes,    \* Publisher.subscribes: request id -> the task its sender cancels
    subs,          \* the per-subscription tasks spawned (publisher.rs:95-115)
    origin,        \* the broadcasts consume_broadcast() finds
    announces,     \* history: the (path, active) events of the local origin
    announced,     \* how many of them origin.announced() has yielded
    origin_closed, \* announced() yields None once every event was yielded
    \* ---- the Subscriber of that endpoint (subscriber.rs) ----
    sub_subscribes, \* SubscriberState.subscribes: request id -> track, alias
    aliases,       \* SubscriberState.aliases: track alias -> request id
    broadcasts,    \* SubscriberState.broadcasts: path -> BroadcastProducer
    producers,     \* every BroadcastProducer made: its path, open or closed
    published,     \* what origin.publish_broadcast() was given: path, producer
    sub_tracks,    \* every track requested: its TrackProducer and its task
    streams,       \* every unidirectional stream accepted and what became of it
    ctrl_n,        \* how many control messages were handed to the Subscriber
    ctrl_msg,      \* Option: the last of them
    sub_origin,    \* Subscriber.origin is Some (subscriber.rs:30), fixed by new()
    \* ---- one group on its unidirectional stream, after the header ----
    group_in,      \* the frames the group's producer wrote: their payloads
    pub_pc,        \* Publisher::run_group: where it is, frame and offset
    uni,           \* the stream: bytes written and not read, fin, the
                   \* Reader's buffer, stopped by the receiver
    sub_pc,        \* Subscriber::run_group: where it is, `remain` of run_frame
    group_out,     \* the GroupProducer of the subscriber and its frames
    \* ---- the codecs of the messages (pure functions) ----
    codec_in,      \* what is given to an encoder or a decoder
    codec_out,     \* Option: what it returned
    \* ---- hang: cmaf::Import (import.rs) ----
    imp,           \* the fields of Import the atoms change
    imp_log,       \* history: per atom fed, what process() returned and emitted
    \* ---- coding::Reader (reader.rs) in one call of read_exact or skip ----
    rdr            \* the Reader's buffer, its stream, and where the call is

trackVars == <<pc, old_group, new_group, old_sequence, new_sequence, tasks,
               opened, track, cancel, arrived>>
prioVars == <<prio_in, prio_out>>
idVars == <<request_id, got, issued>>
sessVars == <<session, returned, closes, wire_in, decoded, reader, handled,
              queue, written, sent, subscribes, subs, origin, announces,
              announced, origin_closed>>
subVars == <<sub_subscribes, aliases, broadcasts, producers, published,
             sub_tracks, streams, ctrl_n, ctrl_msg, sub_origin>>
frameVars == <<group_in, pub_pc, uni, sub_pc, group_out>>
codecVars == <<codec_in, codec_out>>
importVars == <<imp, imp_log>>
readerVars == <<rdr>>
vars == <<trackVars, prioVars, idVars, sessVars, subVars, frameVars,
          codecVars, importVars, readerVars>>

\* What the actions of one part leave alone.
notTrack == <<prioVars, idVars, sessVars, subVars, frameVars,
            codecVars, importVars, readerVars>>
notPrio == <<trackVars, idVars, sessVars, subVars, frameVars,
            codecVars, importVars, readerVars>>
notId == <<trackVars, prioVars, sessVars, subVars, frameVars,
            codecVars, importVars, readerVars>>
notSess == <<trackVars, prioVars, got, issued, subVars, frameVars,
            codecVars, importVars, readerVars>>
\* What no step of the Subscriber changes: the other parts, and its own
\* `origin`, set by Subscriber::new.
notSub == <<trackVars, prioVars, got, issued, wire_in, decoded, reader,
            handled, written, subscribes, subs, origin, announces, announced,
            origin_closed, sub_origin, frameVars, codecVars, importVars, readerVars>>
notFrame == <<trackVars, prioVars, idVars, sessVars, subVars, codecVars,
             importVars, readerVars>>
notCodec == <<trackVars, prioVars, idVars, sessVars, subVars, frameVars,
             importVars, readerVars>>
notImport == <<trackVars, prioVars, idVars, sessVars, subVars, frameVars,
              codecVars, readerVars>>
notReader == <<trackVars, prioVars, idVars, sessVars, subVars, frameVars,
              codecVars, importVars>>

(***************************************************************************)
(* Bounds of the model.                                                    *)
(***************************************************************************)
\* Groups a track yields in one run.
MaxGroups == 3
\* The largest group sequence the modelled track yields.
MaxSequence == 3
\* Small group sequences sampled for stream_priority (beside the 24 bit edge).
MaxSample == 2
\* Request ids one endpoint allocates.
MaxCalls == 3
\* Control frames the peer sends in one session.
MaxFrames == 2
\* Announce and unannounce events of the local origin in one session.
MaxAnnounces == 2
\* Control messages the peer sends to the Subscriber in one session.
MaxCtrl == 3
\* Tracks requested on the broadcasts the peer announced.
MaxTracks == 2
\* Unidirectional streams the peer opens in one session.
MaxStreams == 2
\* Frames of one group, and bytes of one frame.
MaxObjects == 2
MaxSize == 2

(***************************************************************************)
(* Option<T>, as a sequence of length 0 or 1.                              *)
(***************************************************************************)
None == <<>>
\* The values of the stream's variables where no group is followed.
NoTask == [at |-> "idle"]
NoStream == [sent |-> <<>>, fin |-> FALSE, buffer |-> <<>>, stopped |-> FALSE]
NoGroup == [state |-> "none", frames |-> <<>>]
\* No Import has been made.
NoImport == [state |-> "none"]
\* No Reader is in a call.
NoReader == [pc |-> "idle"]
Some(x) == <<x>>
UnwrapOr(o, d) == IF o = None THEN d ELSE o[1]

(***************************************************************************)
(* stream_priority: publisher.rs:316-319.                                  *)
(*   let sequence = 0xFFFFFF - (group_sequence as u32 & 0xFFFFFF);         *)
(*   ((track_priority as i32) << 24) | sequence as i32                     *)
(***************************************************************************)
\* 0xFFFFFF
SequenceMask == 16777215

\* (x as i32) << 24 for a u8 x: bit 7 of x lands in the sign bit, so the
\* two's complement value is (x - 256) * 2^24 from 128 on.
Shl24 == [x \in 0..255 |-> IF x >= 128 THEN (x - 256) * (SequenceMask + 1)
                                        ELSE x * (SequenceMask + 1)]

\* The low 24 bits of the shifted priority are zero and 0 <= sequence < 2^24:
\* the bitwise or is the sum.
stream_priority(track_priority, group_sequence) ==
    LET sequence == SequenceMask - (group_sequence % (SequenceMask + 1))
    IN  Shl24[track_priority] + sequence

(***************************************************************************)
(* Publisher::run_track and the run_group futures it holds.                *)
(*                                                                         *)
(* A future is a record: the group's sequence, its state ("running",       *)
(* "finished" = returned Ok, "failed" = returned Err, "dropped" =          *)
(* cancelled by dropping it), what the peer saw of its stream ("none":     *)
(* never opened, "open", "finished", "reset") and whether the group header *)
(* was written on it.  run_group is lazy: nothing happens until the        *)
(* select! in run_track polls it.                                          *)
(***************************************************************************)
\* track.info.priority of the modelled subscription.
TrackPriority == 2

Sequences == 0..MaxSequence

\* A group message whose group_id is the newest sequence served, not the
\* group's own.
Future_Latest(sequence) ==
    [sequence |-> UnwrapOr(new_sequence, 0), state |-> "running",
     stream |-> "none", header |-> FALSE,
     priority |-> stream_priority(TrackPriority, sequence)]

Future(sequence) ==
    [sequence |-> sequence, state |-> "running", stream |-> "none",
     header |-> FALSE, priority |-> stream_priority(TrackPriority, sequence)]

\* A stream that outlives the future that owned it.
Released_Leaks(stream) == stream

\* Dropping a stream that was opened and not finished resets it.
Released(stream) == IF stream = "open" THEN "reset" ELSE stream

\* A scheduler whose futures were spawned detached: dropping the handle
\* cancels nothing.
DropFuture_Detached(ts, slot) == ts

\* Dropping the future in `slot` (publisher.rs:190, and the locals going out
\* of scope when run_track returns): it is cancelled and releases its stream.
DropFuture(ts, slot) ==
    IF slot = None THEN ts
    ELSE [ts EXCEPT ![slot[1]].state = "dropped",
                    ![slot[1]].stream = Released(@)]

\* A loop body without the skip: every group that arrives is served.
TooOld_Never(sequence, old) == FALSE

\* A skip rule that compares with the newest group when `old` is empty.
TooOld_AgainstNew(sequence, old) ==
    sequence < UnwrapOr(old, UnwrapOr(new_sequence, 0))

\* publisher.rs:166: older than the oldest group being served.
TooOld(sequence, old) == sequence < UnwrapOr(old, 0)

\* A placement that never takes the `new` slot.
IsLatest_Never(sequence, latest) == FALSE

\* A placement that sends a group of equal sequence to `old`.
IsLatest_Strict(sequence, latest) == sequence > latest

\* publisher.rs:195
IsLatest(sequence, latest) == sequence >= latest

\* select! branch 2 (publisher.rs:143) yielding Ok(group), and the loop body
\* publisher.rs:159-205.
RecvGroup(sequence) ==
    /\ pc = "run" /\ cancel = "pending" /\ track = "live"
    /\ Len(arrived) < MaxGroups
    /\ arrived' = Append(arrived, sequence)
    /\ LET latest == UnwrapOr(new_sequence, 0)
           handle == Len(tasks) + 1
           created == Append(tasks, Future(sequence))
           \* publisher.rs:188-191
           taken == IF old_sequence # None THEN DropFuture(created, old_group)
                                          ELSE created
           old1 == IF old_sequence # None THEN None ELSE old_group
       IN  IF TooOld(sequence, old_sequence)
           THEN UNCHANGED <<pc, old_group, new_group, old_sequence,
                            new_sequence, tasks>>
           ELSE IF old1 # None
           THEN \* assert!(old_group.is_none()) fails: publisher.rs:193
                /\ pc' = "panic"
                /\ tasks' = DropFuture(DropFuture(taken, old1), new_group)
                /\ old_group' = None /\ new_group' = None
                /\ old_sequence' = None /\ new_sequence' = None
           ELSE IF IsLatest(sequence, latest)
           THEN /\ old_group' = new_group
                /\ old_sequence' = new_sequence
                /\ new_group' = Some(handle)
                /\ new_sequence' = Some(sequence)
                /\ tasks' = taken
                /\ pc' = pc
           ELSE /\ old_group' = Some(handle)
                /\ old_sequence' = Some(sequence)
                /\ tasks' = taken
                /\ UNCHANGED <<pc, new_group, new_sequence>>
    /\ UNCHANGED <<opened, track, cancel, notTrack>>

\* One poll of a run_group future that does not end it (publisher.rs:210-217):
\* open_uni and set_priority, then the group header.
Advance(ts, t) ==
    IF ts[t].stream = "none" THEN [ts EXCEPT ![t].stream = "open"]
    ELSE [ts EXCEPT ![t].header = TRUE]

\* The future returns Ok: every frame written, stream finished (publisher.rs:266-270).
Finish(ts, t) == [ts EXCEPT ![t].state = "finished", ![t].stream = "finished"]

\* The future returns Err (open_uni or a write failed, the peer stopped the
\* stream, the group was aborted); its stream, if any, is dropped.
Fail(ts, t) == [ts EXCEPT ![t].state = "failed", ![t].stream = Released(@)]

\* The futures are polled only after the cancel and next_group branches
\* were found pending or disabled: the select! is biased (publisher.rs:141).
CanPoll == pc = "run" /\ cancel = "pending" /\ track \in {"live", "ended"}

\* select! branch 3 polls old_group and it stays pending.
PollOld ==
    /\ CanPoll /\ old_group # None
    /\ ~tasks[old_group[1]].header
    /\ tasks' = Advance(tasks, old_group[1])
    /\ opened' = IF tasks[old_group[1]].stream = "none"
                 THEN Append(opened, tasks[old_group[1]].sequence) ELSE opened
    /\ UNCHANGED <<pc, old_group, new_group, old_sequence, new_sequence,
                   track, cancel, arrived, notTrack>>

\* A branch 3 that forgets the future and keeps it in its slot.
OldDone_KeepsFuture ==
    /\ CanPoll /\ old_group # None
    /\ \/ /\ tasks[old_group[1]].header
          /\ tasks' = Finish(tasks, old_group[1])
       \/ tasks' = Fail(tasks, old_group[1])
    /\ old_sequence' = None
    /\ UNCHANGED <<pc, old_group, new_group, new_sequence, opened, track,
                   cancel, arrived, notTrack>>

\* select! branch 3 (publisher.rs:144-148): old_group is ready, Ok or Err.
OldDone ==
    /\ CanPoll /\ old_group # None
    /\ \/ /\ tasks[old_group[1]].header
          /\ tasks' = Finish(tasks, old_group[1])
       \/ tasks' = Fail(tasks, old_group[1])
    /\ old_group' = None
    /\ old_sequence' = None
    /\ UNCHANGED <<pc, new_group, new_sequence, opened, track, cancel,
                   arrived, notTrack>>

\* select! branch 4 polls new_group and it stays pending.
PollNew ==
    /\ CanPoll /\ new_group # None
    /\ ~tasks[new_group[1]].header
    /\ tasks' = Advance(tasks, new_group[1])
    /\ opened' = IF tasks[new_group[1]].stream = "none"
                 THEN Append(opened, tasks[new_group[1]].sequence) ELSE opened
    /\ UNCHANGED <<pc, old_group, new_group, old_sequence, new_sequence,
                   track, cancel, arrived, notTrack>>

\* A branch 4 that looks at the result of the future and returns its error.
NewDone_Surfaces ==
    /\ CanPoll /\ new_group # None
    /\ \/ /\ tasks[new_group[1]].header
          /\ tasks' = Finish(tasks, new_group[1])
          /\ new_group' = old_group
          /\ new_sequence' = old_sequence
          /\ old_group' = None
          /\ old_sequence' = None
          /\ pc' = pc
       \/ /\ pc' = "err"
          /\ tasks' = DropFuture(Fail(tasks, new_group[1]), old_group)
          /\ old_group' = None /\ new_group' = None
          /\ old_sequence' = None /\ new_sequence' = None
    /\ UNCHANGED <<opened, track, cancel, arrived, notTrack>>

\* select! branch 4 (publisher.rs:149-155): new_group is ready, Ok or Err;
\* the old group is promoted.
NewDone ==
    /\ CanPoll /\ new_group # None
    /\ \/ /\ tasks[new_group[1]].header
          /\ tasks' = Finish(tasks, new_group[1])
       \/ tasks' = Fail(tasks, new_group[1])
    /\ new_group' = old_group
    /\ new_sequence' = old_sequence
    /\ old_group' = None
    /\ old_sequence' = None
    /\ UNCHANGED <<pc, opened, track, cancel, arrived, notTrack>>

\* run_track returns: its locals are dropped.
Return(result) ==
    /\ pc' = result
    /\ tasks' = DropFuture(DropFuture(tasks, old_group), new_group)
    /\ old_group' = None /\ new_group' = None
    /\ old_sequence' = None /\ new_sequence' = None

\* select! branch 1 (publisher.rs:142): the cancel receiver completed.
Cancelled ==
    /\ pc = "run" /\ cancel = "fired"
    /\ Return("ok")
    /\ UNCHANGED <<opened, track, cancel, arrived, notTrack>>

\* select! branch 2 yielding Err, then the `?` of publisher.rs:157.
TrackFailed ==
    /\ pc = "run" /\ cancel = "pending" /\ track = "error"
    /\ Return("err")
    /\ UNCHANGED <<opened, track, cancel, arrived, notTrack>>

\* The `else` branch (publisher.rs:156) runs when every branch is disabled:
\* next_group gave None and both slots are empty.  `_ = &mut cancel` matches
\* any value, so branch 1 is either pending or taken and disabled never: with
\* the track ended and both slots empty the select! waits for cancel.  This
\* is the guard of the `else` branch; it is an action of no specification
\* because no state satisfies it.
ElseBranch ==
    /\ pc = "run" /\ track = "ended"
    /\ old_group = None /\ new_group = None
    /\ cancel \notin {"pending", "fired"}

\* The environment: the track's producer closes or aborts the track, the
\* peer's Unsubscribe (Publisher::recv_unsubscribe, publisher.rs:273-279)
\* fires the cancel channel.
TrackEnds ==
    /\ track = "live" /\ pc = "run"
    /\ track' \in {"ended", "error"}
    /\ UNCHANGED <<pc, old_group, new_group, old_sequence, new_sequence, tasks,
                   opened, cancel, arrived, notTrack>>

Unsubscribed ==
    /\ cancel = "pending" /\ pc = "run"
    /\ cancel' = "fired"
    /\ UNCHANGED <<pc, old_group, new_group, old_sequence, new_sequence, tasks,
                   opened, track, arrived, notTrack>>

\* The initial states.  Each specification starts its own part and leaves
\* the other parts idle: run_track not started ("idle"), stream_priority
\* not called, no request id allocated.
InitTrack ==
    /\ pc = "run"
    /\ old_group = None /\ new_group = None
    /\ old_sequence = None /\ new_sequence = None
    /\ tasks = <<>> /\ opened = <<>>
    /\ track = "live" /\ cancel = "pending"
    /\ arrived = <<>>
    /\ prio_in = <<0, 0, 0, 0>> /\ prio_out = None
    /\ request_id = [side \in {"client", "server"} |-> 0]
    /\ got = [side \in {"client", "server"} |-> <<>>]
    /\ issued = [side \in {"client", "server"} |-> <<>>]
    /\ session = "idle" /\ returned = <<>> /\ closes = <<>>
    /\ wire_in = <<>> /\ decoded = 0 /\ reader = "decode" /\ handled = <<>>
    /\ queue = <<>> /\ written = <<>> /\ sent = <<>>
    /\ subscribes = {} /\ subs = <<>>
    /\ origin = {} /\ announces = <<>> /\ announced = 0
    /\ origin_closed = FALSE
    /\ sub_subscribes = {} /\ aliases = {} /\ broadcasts = {}
    /\ producers = <<>> /\ published = <<>>
    /\ sub_tracks = <<>> /\ streams = <<>>
    /\ ctrl_n = 0 /\ ctrl_msg = None /\ sub_origin = TRUE
    /\ group_in = <<>> /\ pub_pc = NoTask /\ uni = NoStream
    /\ sub_pc = NoTask /\ group_out = NoGroup
    /\ codec_in = None /\ codec_out = None /\ imp = NoImport /\ imp_log = <<>>
    /\ rdr = NoReader

(***************************************************************************)
(* Control::request_id: control.rs:11-33.  Both endpoints of one session,  *)
(* each with its own Control, and on each the tasks that share it: the     *)
(* publisher's announce loop (publisher.rs:40) and the subscriber's        *)
(* run_broadcast tasks (subscriber.rs:191).                                *)
(***************************************************************************)
Sides == {"client", "server"}
Callers == {"announce", "broadcast1", "broadcast2"}

\* Control::new, control.rs:15: if client { 0 } else { 1 }
StartId(side) == IF side = "client" THEN 0 ELSE 1

\* An allocator that steps by one.
FetchAdd_One(v) == v + 1

\* control.rs:32: fetch_add(2), the value stored.
FetchAdd(v) == v + 2

\* control.rs:31-33: one atomic read-modify-write; the old value is returned.
RequestId(side, caller) ==
    /\ got[side][caller] = None
    /\ Len(issued[side]) < MaxCalls
    /\ got' = [got EXCEPT ![side][caller] = Some(request_id[side])]
    /\ request_id' = [request_id EXCEPT ![side] = FetchAdd(@)]
    /\ issued' = [issued EXCEPT ![side] = Append(@, request_id[side])]
    /\ UNCHANGED notId

\* The caller puts the id in the message it sends (publisher.rs:42-45,
\* subscriber.rs:195-222) and goes round its loop.
UseId(side, caller) ==
    /\ got[side][caller] # None
    /\ got' = [got EXCEPT ![side][caller] = None]
    /\ UNCHANGED <<request_id, issued, notId>>

InitId ==
    /\ request_id = [side \in Sides |-> StartId(side)]
    /\ got = [side \in Sides |-> [caller \in Callers |-> None]]
    /\ issued = [side \in Sides |-> <<>>]
    /\ pc = "idle"
    /\ old_group = None /\ new_group = None
    /\ old_sequence = None /\ new_sequence = None
    /\ tasks = <<>> /\ opened = <<>>
    /\ track = "live" /\ cancel = "pending"
    /\ arrived = <<>>
    /\ prio_in = <<0, 0, 0, 0>> /\ prio_out = None
    /\ session = "idle" /\ returned = <<>> /\ closes = <<>>
    /\ wire_in = <<>> /\ decoded = 0 /\ reader = "decode" /\ handled = <<>>
    /\ queue = <<>> /\ written = <<>> /\ sent = <<>>
    /\ subscribes = {} /\ subs = <<>>
    /\ origin = {} /\ announces = <<>> /\ announced = 0
    /\ origin_closed = FALSE
    /\ sub_subscribes = {} /\ aliases = {} /\ broadcasts = {}
    /\ producers = <<>> /\ published = <<>>
    /\ sub_tracks = <<>> /\ streams = <<>>
    /\ ctrl_n = 0 /\ ctrl_msg = None /\ sub_origin = TRUE
    /\ group_in = <<>> /\ pub_pc = NoTask /\ uni = NoStream
    /\ sub_pc = NoTask /\ group_out = NoGroup
    /\ codec_in = None /\ codec_out = None /\ imp = NoImport /\ imp_log = <<>>
    /\ rdr = NoReader

NextId == \E side \in Sides, caller \in Callers :
              RequestId(side, caller) \/ UseId(side, caller)

SpecId == InitId /\ [][NextId]_vars

(***************************************************************************)
(* stream_priority applied to two (track priority, group sequence) pairs.  *)
(***************************************************************************)
\* u8 track priorities around the sign bit of the shifted value.
TrackPriorities == {0, 1, 127, 128, 255}
\* u64 group sequences: small ones and the 24 bit edge.
GroupSequences ==
    (0..MaxSample) \cup ((SequenceMask - 1)..(SequenceMask + 2))

Derive ==
    /\ prio_out = None
    /\ prio_out' = Some(<<stream_priority(prio_in[1], prio_in[2]),
                          stream_priority(prio_in[3], prio_in[4])>>)
    /\ UNCHANGED <<prio_in, notPrio>>

InitPrio ==
    /\ prio_in \in TrackPriorities \X GroupSequences
                    \X TrackPriorities \X GroupSequences
    /\ prio_out = None
    /\ pc = "idle"
    /\ old_group = None /\ new_group = None
    /\ old_sequence = None /\ new_sequence = None
    /\ tasks = <<>> /\ opened = <<>>
    /\ track = "live" /\ cancel = "pending"
    /\ arrived = <<>>
    /\ request_id = [side \in {"client", "server"} |-> 0]
    /\ got = [side \in {"client", "server"} |-> <<>>]
    /\ issued = [side \in {"client", "server"} |-> <<>>]
    /\ session = "idle" /\ returned = <<>> /\ closes = <<>>
    /\ wire_in = <<>> /\ decoded = 0 /\ reader = "decode" /\ handled = <<>>
    /\ queue = <<>> /\ written = <<>> /\ sent = <<>>
    /\ subscribes = {} /\ subs = <<>>
    /\ origin = {} /\ announces = <<>> /\ announced = 0
    /\ origin_closed = FALSE
    /\ sub_subscribes = {} /\ aliases = {} /\ broadcasts = {}
    /\ producers = <<>> /\ published = <<>>
    /\ sub_tracks = <<>> /\ streams = <<>>
    /\ ctrl_n = 0 /\ ctrl_msg = None /\ sub_origin = TRUE
    /\ group_in = <<>> /\ pub_pc = NoTask /\ uni = NoStream
    /\ sub_pc = NoTask /\ group_out = NoGroup
    /\ codec_in = None /\ codec_out = None /\ imp = NoImport /\ imp_log = <<>>
    /\ rdr = NoReader

SpecPriority == InitPrio /\ [][Derive]_vars

(***************************************************************************)
(* The session of one endpoint: session.rs.  `start` spawns `run`, which   *)
(* selects over four tasks (Subscriber::run, Publisher::run,               *)
(* run_control_read, run_control_write) and closes the transport session   *)
(* with the result of the first that returns.  The endpoint modelled is    *)
(* the client; the peer and the local origin are the environment.          *)
(***************************************************************************)
\* Request ids the peer (the server) puts in its Subscribe and Unsubscribe.
PeerRequestIds == {1, 3}
\* Paths of broadcasts.
Namespaces == {"a"}

\* A control frame as run_control_read sees it: the type id, the fields the
\* handlers use, and how the typed decoder fares on the `size` bytes of the
\* body: "exact" (consumes them all), "extra" (bytes are left over), "bad"
\* (the decoder fails).
PeerFrames ==
    [type : {"Subscribe"}, request_id : PeerRequestIds, ns : Namespaces,
     body : {"exact", "extra", "bad"}]
    \cup [type : {"Unsubscribe"}, request_id : PeerRequestIds, ns : {"-"},
          body : {"exact"}]
    \cup [type : {"MaxRequestId", "SubscribeUpdate", "Fetch", "Unknown"},
          request_id : {1}, ns : {"-"}, body : {"exact"}]
    \cup [type : {"TrackStatusRequest"}, request_id : {1}, ns : {"-"},
          body : {"exact", "extra"}]

\* A control message of ours; `re` is the index of the frame whose handler
\* enqueued it (0: none).
Msg(type, id, code, ns, re) ==
    [type |-> type, request_id |-> id, code |-> code, ns |-> ns,
     re |-> re]

\* Control::send, control.rs:19-29: the encoded message is pushed on the
\* channel; the push fails once the receiver is gone (run returned).
Enqueue(q, m) == IF session = "running" THEN Append(q, m) ELSE q

\* A close that maps a transport error like every other error.
CloseArgs_ToCode(result) ==
    IF result = "Ok" THEN [code |-> "0", err |-> "-"]
    ELSE [code |-> "to_code", err |-> result]

\* session.rs:17-30: the arguments of session.close() for a result of run:
\* the literals 1 and 0, or err.to_code() of the error returned.
CloseArgs(result) ==
    IF result = "Transport" THEN [code |-> "1", err |-> "-"]
    ELSE IF result = "Ok" THEN [code |-> "0", err |-> "-"]
    ELSE [code |-> "to_code", err |-> result]

\* A task of the select! (session.rs:55-60) returns: run returns its result
\* and `start` closes the session (session.rs:17-30).
Terminate(task, result) ==
    /\ session' = "closed"
    /\ returned' = Append(returned, [task |-> task, result |-> result])
    /\ closes' = Append(closes, CloseArgs(result))

\* ---- Publisher.subscribes and the per-subscription tasks ----
Entries(id) == {e \in subscribes : e.request_id = id}

\* The senders of `entries` were used or dropped: the receivers complete.
Fire(ss, entries) ==
    [t \in 1..Len(ss) |->
        IF \E e \in entries : e.task = t THEN [ss[t] EXCEPT !.cancel = "fired"]
        ELSE ss[t]]

\* A lookup that finds every broadcast.
ConsumeBroadcast_Any(ns) == TRUE

\* origin.consume_broadcast(), publisher.rs:65.
ConsumeBroadcast(ns) == ns \in origin

\* Publisher::recv_subscribe, publisher.rs:57-118, for frame i.
RecvSubscribe(f, i) ==
    IF ~ConsumeBroadcast(f.ns)
    THEN /\ queue' = Enqueue(queue, Msg("SubscribeError", f.request_id, 404, "-", i))
         /\ sent' = Enqueue(sent, Msg("SubscribeError", f.request_id, 404, "-", i))
         /\ UNCHANGED <<subscribes, subs>>
    ELSE LET t == Len(subs) + 1
             task == [request_id |-> f.request_id, state |-> "run",
                      cancel |-> "pending"]
         IN  /\ subscribes' = (subscribes \ Entries(f.request_id))
                                \cup {[request_id |-> f.request_id, task |-> t]}
             /\ subs' = Append(Fire(subs, Entries(f.request_id)), task)
             /\ queue' = Enqueue(queue, Msg("SubscribeOk", f.request_id, 0, "-", i))
             /\ sent' = Enqueue(sent, Msg("SubscribeOk", f.request_id, 0, "-", i))

\* Publisher::recv_unsubscribe, publisher.rs:273-279.
RecvUnsubscribe(f) ==
    /\ subscribes' = subscribes \ Entries(f.request_id)
    /\ subs' = Fire(subs, Entries(f.request_id))
    /\ UNCHANGED <<queue, sent>>

\* The spawned task of publisher.rs:95-115: run_track returned (Ok once its
\* cancel receiver completed, which the select! of run_track looks at first;
\* Err when the track failed while the receiver was pending), the terminal
\* message is sent, its failure ignored, and the entry under the request id
\* is removed.
SubReturns(t, result) ==
    /\ subs[t].state = "run"
    /\ result = "ok" <=> subs[t].cancel = "fired"
    /\ LET m == IF result = "ok"
                THEN Msg("PublishDone", subs[t].request_id, 200, "-", 0)
                ELSE Msg("SubscribeError", subs[t].request_id, 500, "-", 0)
       IN  /\ queue' = Enqueue(queue, m)
           /\ sent' = Enqueue(sent, m)
           /\ subscribes' = subscribes \ Entries(subs[t].request_id)
           /\ subs' = Fire([subs EXCEPT ![t].state = result],
                           Entries(subs[t].request_id))
    /\ UNCHANGED <<session, returned, closes, wire_in, decoded, reader, handled,
                   written, origin, announces, announced, origin_closed,
                   request_id, notSess>>

\* ---- run_control_read, session.rs:63-162 ----
\* session.rs:69-71: the type, the size and `size` bytes of the next frame.
ReadFrame ==
    /\ session = "running" /\ reader = "decode"
    /\ decoded < Len(wire_in)
    /\ decoded' = decoded + 1
    /\ reader' = "dispatch"
    /\ UNCHANGED <<session, returned, closes, wire_in, handled, queue, written,
                   sent, subscribes, subs, origin, announces, announced,
                   origin_closed, request_id, notSess>>

\* session.rs:69-71 fail: the control stream ended (Decode(Short),
\* reader.rs:38) or the transport failed (reader.rs:34).
ReadFails(err) ==
    /\ session = "running" /\ reader = "decode"
    /\ reader' = "returned"
    /\ Terminate("reader", err)
    /\ UNCHANGED <<wire_in, decoded, handled, queue, written, sent, subscribes,
                   subs, origin, announces, announced, origin_closed,
                   request_id, notSess>>

\* session.rs:158-160 after a handler that returned Ok.
Epilogue(f) ==
    IF f.body = "extra"
    THEN reader' = "returned" /\ Terminate("reader", "WrongSize")
    ELSE reader' = "decode" /\ UNCHANGED <<session, returned, closes>>

\* A reader that skips the frame it cannot take and reads on.
Reject_Skips(err) ==
    /\ reader' = "decode"
    /\ UNCHANGED <<session, returned, closes, queue, sent, subscribes, subs>>

\* The reader returns `err` from inside the match.
Reject(err) ==
    /\ reader' = "returned" /\ Terminate("reader", err)
    /\ UNCHANGED <<queue, sent, subscribes, subs>>

\* session.rs:73-160 for the frame just read: the typed decode, the handler
\* and the check that the body was consumed, without an await in between.
Dispatch ==
    /\ session = "running" /\ reader = "dispatch"
    /\ LET f == wire_in[decoded]
       IN  CASE f.type = "Subscribe" ->
                    IF f.body = "bad" THEN Reject("Decode")
                    ELSE RecvSubscribe(f, decoded) /\ Epilogue(f)
             [] f.type = "Unsubscribe" ->
                    IF f.body = "bad" THEN Reject("Decode")
                    ELSE RecvUnsubscribe(f) /\ Epilogue(f)
             [] f.type = "MaxRequestId" ->
                    IF f.body = "bad" THEN Reject("Decode")
                    ELSE UNCHANGED <<queue, sent, subscribes, subs>> /\ Epilogue(f)
             [] f.type = "TrackStatusRequest" ->
                    \* recv_track_status_request, publisher.rs:307-309
                    IF f.body = "bad" THEN Reject("Decode")
                    ELSE Reject("Unsupported")
             [] f.type \in {"SubscribeUpdate", "Fetch"} -> Reject("Unsupported")
             [] OTHER -> Reject("UnexpectedMessage")
    /\ handled' = Append(handled, decoded)
    /\ UNCHANGED <<wire_in, decoded, written, origin, announces, announced,
                   origin_closed, request_id, notSess>>

\* ---- run_control_write, session.rs:164-174 ----
\* A writer that takes the newest message of the channel.
Recv_Newest(q) == <<q[Len(q)], SubSeq(q, 1, Len(q) - 1)>>

\* rx.recv(), session.rs:168: the oldest message, and what stays queued.
Recv(q) == <<Head(q), Tail(q)>>

WriteOne ==
    /\ session = "running" /\ queue # <<>>
    /\ written' = Append(written, Recv(queue)[1])
    /\ queue' = Recv(queue)[2]
    /\ UNCHANGED <<session, returned, closes, wire_in, decoded, reader, handled,
                   sent, subscribes, subs, origin, announces, announced,
                   origin_closed, request_id, notSess>>

\* control.write_all fails, session.rs:170.
WriteFails ==
    /\ session = "running"
    /\ Terminate("writer", "Transport")
    /\ UNCHANGED <<wire_in, decoded, reader, handled, queue, written, sent,
                   subscribes, subs, origin, announces, announced,
                   origin_closed, request_id, notSess>>

\* ---- Publisher::run, publisher.rs:34-55 ----
Announce ==
    /\ session = "running" /\ announced < Len(announces)
    /\ announced' = announced + 1
    /\ LET a == announces[announced + 1]
           m == IF a.active
                THEN Msg("PublishNamespace", request_id["client"], 0, a.ns, 0)
                ELSE Msg("PublishNamespaceDone", 0, 0, a.ns, 0)
       IN  /\ request_id' = IF a.active
                            THEN [request_id EXCEPT !["client"] = FetchAdd(@)]
                            ELSE request_id
           /\ queue' = Enqueue(queue, m)
           /\ sent' = Enqueue(sent, m)
    /\ UNCHANGED <<session, returned, closes, wire_in, decoded, reader, handled,
                   written, subscribes, subs, origin, announces, origin_closed,
                   notSess>>

\* announced() yields None, publisher.rs:35 and 54.
PublisherReturns ==
    /\ session = "running" /\ announced = Len(announces) /\ origin_closed
    /\ Terminate("publisher", "Ok")
    /\ UNCHANGED <<wire_in, decoded, reader, handled, queue, written, sent,
                   subscribes, subs, origin, announces, announced,
                   origin_closed, request_id, notSess>>

\* ---- Subscriber::run, subscriber.rs:142-159: accept_uni fails ----
AcceptFails ==
    /\ session = "running"
    /\ Terminate("subscriber", "Transport")
    /\ UNCHANGED <<wire_in, decoded, reader, handled, queue, written, sent,
                   subscribes, subs, origin, announces, announced,
                   origin_closed, request_id, notSess>>

\* ---- the environment ----
\* The peer's next frame; bytes the reader has not asked for are not
\* observable, so a frame arrives when the reader has read all before it,
\* or after the reader has returned.
PeerSends(f) ==
    /\ Len(wire_in) < MaxFrames /\ decoded = Len(wire_in)
    /\ \/ session = "running" /\ reader = "decode"
       \/ reader = "returned"
    /\ wire_in' = Append(wire_in, f)
    /\ UNCHANGED <<session, returned, closes, decoded, reader, handled, queue,
                   written, sent, subscribes, subs, origin, announces,
                   announced, origin_closed, request_id, notSess>>

\* The application publishes or drops a broadcast of the local origin.
OriginChanges(ns) ==
    /\ session = "running" /\ ~origin_closed /\ Len(announces) < MaxAnnounces
    /\ origin' = IF ns \in origin THEN origin \ {ns} ELSE origin \cup {ns}
    /\ announces' = Append(announces, [ns |-> ns, active |-> ns \notin origin])
    /\ UNCHANGED <<session, returned, closes, wire_in, decoded, reader, handled,
                   queue, written, sent, subscribes, subs, announced,
                   origin_closed, request_id, notSess>>

OriginCloses ==
    /\ session = "running" /\ ~origin_closed
    /\ origin_closed' = TRUE
    /\ UNCHANGED <<session, returned, closes, wire_in, decoded, reader, handled,
                   queue, written, sent, subscribes, subs, origin, announces,
                   announced, request_id, notSess>>

\* session.rs:43-53: the channel and the Control are made and MaxRequestId is
\* the first message enqueued (its value, u32::MAX, is read by nothing here
\* and is written 0).
InitSession ==
    /\ session = "running" /\ returned = <<>> /\ closes = <<>>
    /\ wire_in = <<>> /\ decoded = 0 /\ reader = "decode" /\ handled = <<>>
    /\ queue = <<Msg("MaxRequestId", 0, 0, "-", 0)>>
    /\ written = <<>>
    /\ sent = <<Msg("MaxRequestId", 0, 0, "-", 0)>>
    /\ subscribes = {} /\ subs = <<>>
    /\ origin = {} /\ announces = <<>> /\ announced = 0
    /\ origin_closed = FALSE
    /\ sub_subscribes = {} /\ aliases = {} /\ broadcasts = {}
    /\ producers = <<>> /\ published = <<>>
    /\ sub_tracks = <<>> /\ streams = <<>>
    /\ ctrl_n = 0 /\ ctrl_msg = None /\ sub_origin = TRUE
    /\ group_in = <<>> /\ pub_pc = NoTask /\ uni = NoStream
    /\ sub_pc = NoTask /\ group_out = NoGroup
    /\ codec_in = None /\ codec_out = None /\ imp = NoImport /\ imp_log = <<>>
    /\ rdr = NoReader
    /\ request_id = [side \in {"client", "server"} |-> IF side = "client" THEN 0 ELSE 1]
    /\ got = [side \in {"client", "server"} |-> <<>>]
    /\ issued = [side \in {"client", "server"} |-> <<>>]
    /\ pc = "idle"
    /\ old_group = None /\ new_group = None
    /\ old_sequence = None /\ new_sequence = None
    /\ tasks = <<>> /\ opened = <<>>
    /\ track = "live" /\ cancel = "pending"
    /\ arrived = <<>>
    /\ prio_in = <<0, 0, 0, 0>> /\ prio_out = None

NextSession ==
    \/ ReadFrame \/ Dispatch
    \/ \E err \in {"Decode", "Transport"} : ReadFails(err)
    \/ WriteOne \/ WriteFails
    \/ Announce \/ PublisherReturns
    \/ AcceptFails
    \/ \E t \in 1..Len(subs) : \E result \in {"ok", "err"} : SubReturns(t, result)
    \/ \E f \in PeerFrames : PeerSends(f)
    \/ \E ns \in Namespaces : OriginChanges(ns)
    \/ OriginCloses

SpecSession == InitSession /\ [][NextSession]_vars

(***************************************************************************)
(* The Subscriber of the endpoint: subscriber.rs.  run_control_read hands  *)
(* it the peer's PublishNamespace, PublishNamespaceDone, SubscribeOk,      *)
(* SubscribeError and PublishDone one at a time (session.rs:73-157); a     *)
(* handler that returns Err ends the reader and with it the session.       *)
(* run_broadcast and run_subscribe are spawned tasks, Subscriber::run      *)
(* accepts the peer's unidirectional streams.  The frames handled here are *)
(* well formed: what a malformed control frame does is the session's part. *)
(***************************************************************************)
\* Track aliases the peer puts in SubscribeOk and in group headers, beside
\* the request ids themselves.
Aliases == {5}
\* Request ids the Subscriber may allocate: Control::request_id on the client.
OwnRequestIds == {StartId("client") + 2 * k : k \in 0..(MaxTracks - 1)}

\* Paths of the broadcasts the peer announces.
Paths == {"a", "b"}

\* state.subscribes.get(request_id)
SubEntries(id) == {e \in sub_subscribes : e.request_id = id}
\* state.aliases.get(alias)
AliasEntries(alias) == {e \in aliases : e.alias = alias}
\* state.broadcasts.get(path)
BroadcastEntries(path) == {e \in broadcasts : e.path = path}

\* A handler returned Ok: run_control_read goes on (session.rs:158-160).
HandlerOk == UNCHANGED <<session, returned, closes>>

\* An announce check that lets the newer broadcast replace the one recorded.
IsDuplicate_Never(path) == FALSE

\* subscriber.rs:70-71: Entry::Occupied.
IsDuplicate(path) == BroadcastEntries(path) # {}

\* Subscriber::recv_publish_namespace, subscriber.rs:46-83.  Without an
\* origin the announce is refused with PublishNamespaceError 404 and the
\* handler returns Ok (lines 49-60).
RecvPublishNamespace(m) ==
    /\ session = "running" /\ ctrl_n < MaxCtrl
    /\ m.type = "PublishNamespace"
    /\ ctrl_n' = ctrl_n + 1 /\ ctrl_msg' = Some(m)
    /\ IF ~sub_origin
       THEN LET err == Msg("PublishNamespaceError", m.request_id, 404, "-",
                           ctrl_n + 1)
            IN  /\ queue' = Enqueue(queue, err)
                /\ sent' = Enqueue(sent, err)
                /\ HandlerOk
                /\ UNCHANGED <<broadcasts, producers, published>>
       ELSE IF IsDuplicate(m.ns)
       THEN /\ Terminate("reader", "Duplicate")
            /\ UNCHANGED <<broadcasts, producers, published, queue, sent>>
       ELSE LET p == Len(producers) + 1
                ok == Msg("PublishNamespaceOk", m.request_id, 0, "-", ctrl_n + 1)
            IN  /\ broadcasts' = (broadcasts \ BroadcastEntries(m.ns))
                                    \cup {[path |-> m.ns, producer |-> p]}
                /\ producers' = Append(producers, [path |-> m.ns, state |-> "open"])
                /\ published' = Append(published, [path |-> m.ns, producer |-> p])
                /\ queue' = Enqueue(queue, ok)
                /\ sent' = Enqueue(sent, ok)
                /\ HandlerOk
    /\ UNCHANGED <<sub_subscribes, aliases, sub_tracks, streams, request_id, notSub>>

\* An unannounce that forgets to close the producer it removed.
CloseProducers_Forgets(entries) == producers

\* subscriber.rs:97-99: producer.close() on what `remove` returned.
CloseProducers(entries) ==
    [p \in 1..Len(producers) |->
        IF \E e \in entries : e.producer = p
        THEN [producers[p] EXCEPT !.state = "closed"]
        ELSE producers[p]]

\* Subscriber::recv_publish_namespace_done, subscriber.rs:85-102.  Without
\* an origin the message is ignored (lines 86-89).
RecvPublishNamespaceDone(m) ==
    /\ session = "running" /\ ctrl_n < MaxCtrl
    /\ m.type = "PublishNamespaceDone"
    /\ ctrl_n' = ctrl_n + 1 /\ ctrl_msg' = Some(m)
    /\ IF ~sub_origin
       THEN HandlerOk /\ UNCHANGED <<broadcasts, producers>>
       ELSE IF BroadcastEntries(m.ns) = {}
       THEN /\ Terminate("reader", "NotFound")
            /\ UNCHANGED <<broadcasts, producers>>
       ELSE /\ broadcasts' = broadcasts \ BroadcastEntries(m.ns)
            /\ producers' = CloseProducers(BroadcastEntries(m.ns))
            /\ HandlerOk
    /\ UNCHANGED <<published, queue, sent, sub_subscribes, aliases, sub_tracks,
                   streams, request_id, notSub>>

\* Subscriber::recv_subscribe_ok, subscriber.rs:104-115.
RecvSubscribeOk(m) ==
    /\ session = "running" /\ ctrl_n < MaxCtrl
    /\ m.type = "SubscribeOk"
    /\ ctrl_n' = ctrl_n + 1 /\ ctrl_msg' = Some(m)
    /\ IF m.request_id # m.track_alias /\ SubEntries(m.request_id) # {}
       THEN /\ sub_subscribes' =
                  {IF e.request_id = m.request_id
                   THEN [e EXCEPT !.alias = Some(m.track_alias)] ELSE e
                   : e \in sub_subscribes}
            /\ aliases' = (aliases \ AliasEntries(m.track_alias))
                            \cup {[alias |-> m.track_alias,
                                   request_id |-> m.request_id]}
       ELSE UNCHANGED <<sub_subscribes, aliases>>
    /\ HandlerOk
    /\ UNCHANGED <<broadcasts, producers, published, queue, sent, sub_tracks,
                   streams, request_id, notSub>>

\* An end of subscription that ends the producer and leaves the entry.
EndSubscription_Keeps(id, how) ==
    /\ sub_subscribes' = sub_subscribes
    /\ sub_tracks' = [t \in 1..Len(sub_tracks) |->
                        IF \E e \in SubEntries(id) : e.track = t
                        THEN [sub_tracks[t] EXCEPT !.state = how]
                        ELSE sub_tracks[t]]
    /\ aliases' = aliases

\* What recv_subscribe_error and recv_publish_done share (subscriber.rs:
\* 118-125 and 131-137): the entry is removed, its producer ended with
\* `how`, the alias it recorded removed.
EndSubscription(id, how) ==
    /\ sub_subscribes' = sub_subscribes \ SubEntries(id)
    /\ sub_tracks' = [t \in 1..Len(sub_tracks) |->
                        IF \E e \in SubEntries(id) : e.track = t
                        THEN [sub_tracks[t] EXCEPT !.state = how]
                        ELSE sub_tracks[t]]
    /\ aliases' = {a \in aliases :
                      ~\E e \in SubEntries(id) : e.alias = Some(a.alias)}

\* Subscriber::recv_subscribe_error, subscriber.rs:117-128.
RecvSubscribeError(m) ==
    /\ session = "running" /\ ctrl_n < MaxCtrl
    /\ m.type = "SubscribeError"
    /\ ctrl_n' = ctrl_n + 1 /\ ctrl_msg' = Some(m)
    /\ EndSubscription(m.request_id, "aborted")
    /\ HandlerOk
    /\ UNCHANGED <<broadcasts, producers, published, queue, sent, streams,
                   request_id, notSub>>

\* Subscriber::recv_publish_done, subscriber.rs:130-140.
RecvPublishDone(m) ==
    /\ session = "running" /\ ctrl_n < MaxCtrl
    /\ m.type = "PublishDone"
    /\ ctrl_n' = ctrl_n + 1 /\ ctrl_msg' = Some(m)
    /\ EndSubscription(m.request_id, "closed")
    /\ HandlerOk
    /\ UNCHANGED <<broadcasts, producers, published, queue, sent, streams,
                   request_id, notSub>>

\* A run_broadcast that spawns run_subscribe without recording the producer.
RequestTrack_Unrecorded(p) ==
    /\ session = "running" /\ Len(sub_tracks) < MaxTracks
    /\ producers[p].state = "open"
    /\ request_id' = [request_id EXCEPT !["client"] = FetchAdd(@)]
    /\ sub_tracks' = Append(sub_tracks,
           [request_id |-> request_id["client"], path |-> producers[p].path,
            state |-> "open", task |-> "spawned"])
    /\ UNCHANGED <<session, returned, closes, queue, sent, aliases, broadcasts,
                   producers, published, streams, ctrl_n, ctrl_msg, notSub,
                   sub_subscribes>>

\* run_broadcast, subscriber.rs:182-209: a local consumer asked broadcast p
\* for a track; a request id is allocated, the producer recorded under it
\* and run_subscribe spawned.
RequestTrack(p) ==
    /\ session = "running" /\ Len(sub_tracks) < MaxTracks
    /\ producers[p].state = "open"
    /\ LET id == request_id["client"]
           t == Len(sub_tracks) + 1
       IN  /\ request_id' = [request_id EXCEPT !["client"] = FetchAdd(@)]
           /\ sub_subscribes' = (sub_subscribes \ SubEntries(id))
                  \cup {[request_id |-> id, track |-> t, alias |-> None]}
           /\ sub_tracks' = Append(sub_tracks,
                  [request_id |-> id, path |-> producers[p].path,
                   state |-> "open", task |-> "spawned"])
    /\ UNCHANGED <<session, returned, closes, queue, sent, aliases, broadcasts,
                   producers, published, streams, ctrl_n, ctrl_msg, notSub>>

\* run_subscribe, subscriber.rs:214-222: the Subscribe is sent; if the
\* channel is gone the task ends and its entry is removed (subscriber.rs:
\* 205-208).
SendSubscribe(t) ==
    /\ sub_tracks[t].task = "spawned"
    /\ LET m == Msg("Subscribe", sub_tracks[t].request_id, 0, sub_tracks[t].path, 0)
       IN  /\ queue' = Enqueue(queue, m)
           /\ sent' = Enqueue(sent, m)
    /\ IF session = "running"
       THEN /\ sub_tracks' = [sub_tracks EXCEPT ![t].task = "waiting"]
            /\ UNCHANGED sub_subscribes
       ELSE /\ sub_tracks' = [sub_tracks EXCEPT ![t].task = "failed"]
            /\ sub_subscribes' = sub_subscribes \ SubEntries(sub_tracks[t].request_id)
    /\ UNCHANGED <<session, returned, closes, aliases, broadcasts, producers,
                   published, streams, ctrl_n, ctrl_msg, request_id,
                   notSub>>

\* run_subscribe, subscriber.rs:229-234, and the end of its task,
\* subscriber.rs:208: track.unused() completed.
TrackUnused(t) ==
    /\ sub_tracks[t].task = "waiting"
    /\ sub_tracks' = [sub_tracks EXCEPT
                        ![t].task = "cancelled",
                        ![t].state = IF @ = "open" THEN "aborted" ELSE @]
    /\ sub_subscribes' = sub_subscribes \ SubEntries(sub_tracks[t].request_id)
    /\ UNCHANGED <<session, returned, closes, queue, sent, aliases, broadcasts,
                   producers, published, streams, ctrl_n, ctrl_msg, request_id,
                   notSub>>

\* The head of a unidirectional stream of the peer: the type decode_peek
\* finds and, for a group, whether the header decodes and what it carries.
StreamHeads ==
    [kind : {"fetch", "other"}, header : {"-"}, track_alias : {0},
     group_id : {0}]
    \cup [kind : {"group"}, header : {"bad"}, track_alias : {0}, group_id : {0}]
    \cup [kind : {"group"}, header : {"ok"},
          track_alias : OwnRequestIds \cup Aliases, group_id : {1}]

\* A lookup that takes every track alias for a request id.
Resolve_Equal(alias) == alias

\* subscriber.rs:242: the request id a track alias stands for.
Resolve(alias) ==
    IF AliasEntries(alias) = {} THEN alias
    ELSE (CHOOSE e \in AliasEntries(alias) : TRUE).request_id

\* run_uni_stream and recv_group up to the group being created,
\* subscriber.rs:161-172 and 237-249.  `fresh` is the answer of
\* TrackProducer::create_group.
Outcome(h, fresh) ==
    IF h.kind = "fetch" THEN "Unsupported"
    ELSE IF h.kind = "other" THEN "UnexpectedStream"
    ELSE IF h.header = "bad" THEN "Decode"
    ELSE IF SubEntries(Resolve(h.track_alias)) = {} THEN "NotFound"
    ELSE IF ~fresh THEN "Old"
    ELSE "reading"

\* A run that returns the error of a stream's task, as a `?` would.
StreamTaskEnds_Returns(result) ==
    IF result = "Ok" THEN UNCHANGED <<session, returned, closes>>
    ELSE Terminate("subscriber", result)

\* subscriber.rs:153-157: the task of a stream is spawned and its result
\* only logged; run stays in its accept loop.
StreamTaskEnds(result) == UNCHANGED <<session, returned, closes>>

\* What run_uni_stream returns and what it does with the stream: an error
\* of recv_group is answered with stream.abort(&err) and Ok returned
\* (subscriber.rs:170-174); a wrong stream type is returned with `?` or
\* `return Err` and the Reader dropped (subscriber.rs:162-168).
StreamEnd(res) ==
    IF res \in {"Unsupported", "UnexpectedStream"}
    THEN [returns |-> res, end |-> "drop"]
    ELSE IF res = "reading" THEN [returns |-> "Ok", end |-> "open"]
    ELSE [returns |-> "Ok", end |-> "abort"]

\* Subscriber::run accepts a stream (subscriber.rs:144-157) and its task runs
\* up to the select! of recv_group (subscriber.rs:251).
AcceptStream(h, fresh) ==
    /\ session = "running" /\ Len(streams) < MaxStreams
    /\ LET res == Outcome(h, fresh)
           t == IF res \in {"reading", "Old"}
                THEN (CHOOSE e \in SubEntries(Resolve(h.track_alias)) : TRUE).track
                ELSE 0
       IN  /\ streams' = Append(streams,
                [head |-> h, result |-> res, track |-> t,
                 group |-> IF res = "reading" THEN "open" ELSE "none",
                 end |-> StreamEnd(res).end])
           /\ StreamTaskEnds(StreamEnd(res).returns)
    /\ UNCHANGED <<queue, sent, sub_subscribes,
                   aliases, broadcasts, producers, published, sub_tracks,
                   ctrl_n, ctrl_msg, request_id, notSub>>

\* recv_group, subscriber.rs:251-271: run_group returned or the group's
\* consumers went away; the group is closed on Ok and aborted otherwise,
\* recv_group returns Ok either way and the Reader is dropped.
GroupEnds(i, res) ==
    /\ streams[i].result = "reading"
    /\ streams' = [streams EXCEPT ![i].result = res,
                     ![i].group = IF res = "Ok" THEN "closed" ELSE "aborted",
                     ![i].end = "drop"]
    /\ StreamTaskEnds("Ok")
    /\ UNCHANGED <<queue, sent, sub_subscribes,
                   aliases, broadcasts, producers, published, sub_tracks,
                   ctrl_n, ctrl_msg, request_id, notSub>>

\* The control messages of the peer that reach the Subscriber.
CtrlMsgs ==
    [type : {"PublishNamespace"}, request_id : {1}, track_alias : {0},
     ns : Paths]
    \cup [type : {"PublishNamespaceDone"}, request_id : {0}, track_alias : {0},
          ns : Paths]
    \cup {m \in [type : {"SubscribeOk"}, request_id : OwnRequestIds,
                 track_alias : OwnRequestIds \cup Aliases, ns : {"-"}] :
            m.track_alias \in Aliases \cup {m.request_id}}
    \cup [type : {"SubscribeError", "PublishDone"}, request_id : OwnRequestIds,
          track_alias : {0}, ns : {"-"}]

\* What the peer may send now: it announces within `paths`, and an answer
\* names a request id in use.
Answers(paths) ==
    {m \in CtrlMsgs :
        IF m.type \in {"PublishNamespace", "PublishNamespaceDone"}
        THEN m.ns \in paths
        ELSE m.request_id < request_id["client"]}

\* The one broadcast SpecSubscriber follows down to its streams.
OnePath == {"a"}

\* The session after run made the Control and enqueued MaxRequestId
\* (session.rs:43-53), the Subscriber as Subscriber::new leaves it
\* (subscriber.rs:37-44).
InitSubscriber ==
    /\ session = "running" /\ returned = <<>> /\ closes = <<>>
    /\ wire_in = <<>> /\ decoded = 0 /\ reader = "decode" /\ handled = <<>>
    /\ queue = <<Msg("MaxRequestId", 0, 0, "-", 0)>>
    /\ written = <<>>
    /\ sent = <<Msg("MaxRequestId", 0, 0, "-", 0)>>
    /\ subscribes = {} /\ subs = <<>>
    /\ origin = {} /\ announces = <<>> /\ announced = 0
    /\ origin_closed = FALSE
    /\ sub_subscribes = {} /\ aliases = {} /\ broadcasts = {}
    /\ producers = <<>> /\ published = <<>>
    /\ sub_tracks = <<>> /\ streams = <<>>
    /\ ctrl_n = 0 /\ ctrl_msg = None /\ sub_origin \in BOOLEAN
    /\ group_in = <<>> /\ pub_pc = NoTask /\ uni = NoStream
    /\ sub_pc = NoTask /\ group_out = NoGroup
    /\ codec_in = None /\ codec_out = None /\ imp = NoImport /\ imp_log = <<>>
    /\ rdr = NoReader
    /\ request_id = [side \in {"client", "server"} |-> IF side = "client" THEN 0 ELSE 1]
    /\ got = [side \in {"client", "server"} |-> <<>>]
    /\ issued = [side \in {"client", "server"} |-> <<>>]
    /\ pc = "idle"
    /\ old_group = None /\ new_group = None
    /\ old_sequence = None /\ new_sequence = None
    /\ tasks = <<>> /\ opened = <<>>
    /\ track = "live" /\ cancel = "pending"
    /\ arrived = <<>>
    /\ prio_in = <<0, 0, 0, 0>> /\ prio_out = None

NextSubscriber ==
    \/ \E m \in Answers(OnePath) :
          \/ RecvPublishNamespace(m) \/ RecvPublishNamespaceDone(m)
          \/ RecvSubscribeOk(m) \/ RecvSubscribeError(m) \/ RecvPublishDone(m)
    \/ \E p \in 1..Len(producers) : RequestTrack(p)
    \/ \E t \in 1..Len(sub_tracks) : SendSubscribe(t) \/ TrackUnused(t)
    \/ \E h \in StreamHeads : \E fresh \in BOOLEAN : AcceptStream(h, fresh)
    \/ \E i \in 1..Len(streams) : \E res \in {"Ok", "Unsupported", "WrongSize"} :
          GroupEnds(i, res)
    \/ AcceptFails

SpecSubscriber == InitSubscriber /\ [][NextSubscriber]_vars

\* The Subscriber's control side alone, with every path announced: the
\* handlers and the tasks they spawn, no unidirectional stream.
NextAnnounce ==
    \/ \E m \in Answers(Paths) :
          \/ RecvPublishNamespace(m) \/ RecvPublishNamespaceDone(m)
          \/ RecvSubscribeOk(m) \/ RecvSubscribeError(m) \/ RecvPublishDone(m)
    \/ \E p \in 1..Len(producers) : RequestTrack(p)
    \/ \E t \in 1..Len(sub_tracks) : SendSubscribe(t) \/ TrackUnused(t)
    \/ AcceptFails

SpecAnnounce == InitSubscriber /\ [][NextAnnounce]_vars

(***************************************************************************)
(* One group on its unidirectional stream: Publisher::run_group writes the *)
(* objects behind the group header (publisher.rs:219-266), the Reader of   *)
(* the peer buffers what arrives (reader.rs) and Subscriber::run_group     *)
(* with run_frame turns the bytes into frames again (subscriber.rs:        *)
(* 274-340).  The header itself has been written and decoded.              *)
(***************************************************************************)
\* The bytes of a payload: 0 is also the object id, the size of an empty
\* frame and its status; 3 is also the end-of-group status.
Bytes == {0, 3}

Payloads == UNION {[1..n -> Bytes] : n \in 0..MaxSize}
GroupsWritten == UNION {[1..n -> Payloads] : n \in 0..MaxObjects}

\* The flags run_track puts in the header, publisher.rs:172-181.
GroupMsg == [has_extensions |-> FALSE, has_end |-> TRUE]

\* The variable-length integer of the wire: the two high bits of the first
\* byte give the length, 1, 2, 4 or 8 bytes; the shortest form is written.
VarintLen(b) == IF b < 64 THEN 1 ELSE IF b < 128 THEN 2
                ELSE IF b < 192 THEN 4 ELSE 8

BigEndian(bytes) ==
    LET RECURSIVE Be(_)
        Be(n) == IF n = 0 THEN 0 ELSE Be(n - 1) * 256 + bytes[n]
    IN  Be(Len(bytes))

EncodeVarint(n) ==
    IF n < 64 THEN <<n>> ELSE <<64 + (n \div 256), n % 256>>

\* T::decode on the buffer: Short, or the value and the bytes it took.
Short == [short |-> TRUE]
DecodeVarint(buf) ==
    IF buf = <<>> THEN Short
    ELSE IF Len(buf) < VarintLen(buf[1]) THEN Short
    ELSE LET n == VarintLen(buf[1])
         IN  [short |-> FALSE,
              value |-> BigEndian(<<buf[1] % 64>> \o SubSeq(buf, 2, n)),
              used |-> n]

Rest(q, k) == SubSeq(q, k + 1, Len(q))

\* ---- Publisher::run_group, publisher.rs:219-266 ----
\* group.next_frame(): the next frame, its object header written
\* (publisher.rs:221-244), or None and stream.finish() (publisher.rs:
\* 228-230 and 264).
PubNextFrame ==
    /\ pub_pc.at = "next_frame" /\ ~uni.stopped
    /\ IF pub_pc.frame < Len(group_in)
       THEN LET payload == group_in[pub_pc.frame + 1]
                head == <<0>>
                        \o (IF GroupMsg.has_extensions THEN <<0>> ELSE <<>>)
                        \o EncodeVarint(Len(payload))
                        \o (IF Len(payload) = 0 THEN <<0>> ELSE <<>>)
            IN  /\ uni' = [uni EXCEPT !.sent = @ \o head]
                /\ pub_pc' = [at |-> IF Len(payload) = 0 THEN "next_frame"
                                     ELSE "read_chunk",
                              frame |-> pub_pc.frame + 1, off |-> 0]
       ELSE /\ uni' = [uni EXCEPT !.fin = TRUE]
            /\ pub_pc' = [pub_pc EXCEPT !.at = "Ok"]
    /\ UNCHANGED <<group_in, sub_pc, group_out, notFrame>>

\* frame.read_chunk() gave n bytes, written with write_all; after the last
\* of them it gives None (publisher.rs:247-260).
PubWriteChunk(n) ==
    /\ pub_pc.at = "read_chunk" /\ ~uni.stopped
    /\ LET payload == group_in[pub_pc.frame]
       IN  /\ pub_pc.off + n <= Len(payload)
           /\ uni' = [uni EXCEPT !.sent =
                        @ \o SubSeq(payload, pub_pc.off + 1, pub_pc.off + n)]
           /\ pub_pc' = IF pub_pc.off + n = Len(payload)
                        THEN [pub_pc EXCEPT !.at = "next_frame", !.off = 0]
                        ELSE [pub_pc EXCEPT !.off = @ + n]
    /\ UNCHANGED <<group_in, sub_pc, group_out, notFrame>>

\* stream.closed() wins the biased select! (publisher.rs:222-223 and
\* 250-251): the receiver stopped the stream.
PubClosed ==
    /\ pub_pc.at \in {"next_frame", "read_chunk"} /\ uni.stopped
    /\ pub_pc' = [pub_pc EXCEPT !.at = "Cancel"]
    /\ UNCHANGED <<group_in, uni, sub_pc, group_out, notFrame>>

\* ---- the Reader, reader.rs ----
AtDecode == sub_pc.at \in {"decode_maybe", "ext", "size", "status"}
Decodable == ~DecodeVarint(uni.buffer).short

\* A read that hands out all it has buffered.
Take_All(max, avail) == avail

\* reader.rs:81: cmp::min(max, self.buffer.len()).
Take(max, avail) == IF max < avail THEN max ELSE avail

\* ---- Subscriber::run_group and run_frame, subscriber.rs:274-340 ----
\* An error leaves run_group: the frame being read is aborted (subscriber.rs:
\* 309-312), recv_group aborts the group (subscriber.rs:258-266) and the
\* Reader is dropped.
SubFails(err) ==
    /\ sub_pc' = [at |-> err, remain |-> 0]
    /\ group_out' = [state |-> "aborted",
                     frames |-> [i \in 1..Len(group_out.frames) |->
                        IF group_out.frames[i].state = "open"
                        THEN [group_out.frames[i] EXCEPT !.state = "aborted"]
                        ELSE group_out.frames[i]]]

Consume(k) == [uni EXCEPT !.buffer = Rest(@, k)]
Stopped(u) == [u EXCEPT !.stopped = TRUE]

\* read_buf inside decode (reader.rs:29-34) or inside the closed() of
\* decode_maybe (reader.rs:137-143) returns: k bytes of what was sent have
\* reached the buffer, or, with k = 0, the stream has ended.  At the end
\* decode_maybe on an empty buffer gives None, the loop of run_group ends
\* and producer.close() is called (reader.rs:48-50, subscriber.rs:317);
\* anywhere else the decode fails Short (reader.rs:35-38).
ReadBuf(k) ==
    /\ AtDecode /\ ~Decodable
    /\ k <= Len(uni.sent)
    /\ IF k > 0
       THEN /\ uni' = [uni EXCEPT !.buffer = @ \o SubSeq(uni.sent, 1, k),
                                  !.sent = Rest(@, k)]
            /\ UNCHANGED <<sub_pc, group_out>>
       ELSE /\ uni.sent = <<>> /\ uni.fin
            /\ IF sub_pc.at = "decode_maybe" /\ uni.buffer = <<>>
               THEN /\ sub_pc' = [at |-> "Ok", remain |-> 0]
                    /\ group_out' = [group_out EXCEPT !.state = "closed"]
                    /\ UNCHANGED uni
               ELSE SubFails("Short") /\ uni' = Stopped(uni)
    /\ UNCHANGED <<group_in, pub_pc, notFrame>>

\* subscriber.rs:280-288: the object id delta.  The extensions behind it
\* are read only if the header declared them, which run_track never does.
SubDecodeIdDelta ==
    /\ sub_pc.at = "decode_maybe" /\ Decodable
    /\ LET d == DecodeVarint(uni.buffer)
       IN  IF d.value # 0
           THEN SubFails("Unsupported") /\ uni' = Stopped(Consume(d.used))
           ELSE /\ sub_pc' = [sub_pc EXCEPT !.at =
                        IF GroupMsg.has_extensions THEN "ext" ELSE "size"]
                /\ uni' = Consume(d.used)
                /\ UNCHANGED group_out
    /\ UNCHANGED <<group_in, pub_pc, notFrame>>

\* subscriber.rs:290-291 and 305: the size; a frame of that size is created
\* unless it is zero.
SubDecodeSize ==
    /\ sub_pc.at = "size" /\ Decodable
    /\ LET d == DecodeVarint(uni.buffer)
       IN  /\ uni' = Consume(d.used)
           /\ IF d.value = 0
              THEN /\ sub_pc' = [sub_pc EXCEPT !.at = "status"]
                   /\ UNCHANGED group_out
              ELSE /\ sub_pc' = [at |-> "run_frame", remain |-> d.value]
                   /\ group_out' = [group_out EXCEPT !.frames = Append(@,
                          [size |-> d.value, data |-> <<>>, state |-> "open"])]
    /\ UNCHANGED <<group_in, pub_pc, notFrame>>

\* subscriber.rs:292-304: the status behind a zero size.
SubDecodeStatus ==
    /\ sub_pc.at = "status" /\ Decodable
    /\ LET d == DecodeVarint(uni.buffer)
       IN  IF d.value = 0
           THEN /\ group_out' = [group_out EXCEPT !.frames = Append(@,
                       [size |-> 0, data |-> <<>>, state |-> "closed"])]
                /\ sub_pc' = [sub_pc EXCEPT !.at = "decode_maybe"]
                /\ uni' = Consume(d.used)
           ELSE IF d.value = 3 /\ ~GroupMsg.has_end
           THEN /\ group_out' = [group_out EXCEPT !.state = "closed"]
                /\ sub_pc' = [at |-> "Ok", remain |-> 0]
                /\ uni' = Stopped(Consume(d.used))
           ELSE SubFails("Unsupported") /\ uni' = Stopped(Consume(d.used))
    /\ UNCHANGED <<group_in, pub_pc, notFrame>>

\* One turn of the loop of run_frame, subscriber.rs:329-333, on
\* Reader::read (reader.rs:79-90): a chunk from the buffer, else from the
\* stream, at most `remain` bytes; frame.close() once nothing remains
\* (subscriber.rs:337).
SubReadChunk(k) ==
    /\ sub_pc.at = "run_frame"
    /\ LET last == Len(group_out.frames)
           got_fin == uni.buffer = <<>> /\ uni.sent = <<>>
           n == IF uni.buffer # <<>>
                THEN Take(sub_pc.remain, Len(uni.buffer))
                ELSE k
           chunk == IF uni.buffer # <<>> THEN SubSeq(uni.buffer, 1, n)
                    ELSE SubSeq(uni.sent, 1, n)
       IN  IF got_fin
           THEN /\ uni.fin
                /\ SubFails("WrongSize") /\ uni' = Stopped(uni)
           ELSE /\ uni.buffer = <<>> => k <= Take(sub_pc.remain, Len(uni.sent))
                /\ IF n > sub_pc.remain
                   THEN /\ SubFails("WrongSize")
                        /\ uni' = Stopped([uni EXCEPT !.buffer = Rest(@, n)])
                   ELSE /\ uni' = IF uni.buffer # <<>>
                                  THEN [uni EXCEPT !.buffer = Rest(@, n)]
                                  ELSE [uni EXCEPT !.sent = Rest(@, n)]
                        /\ group_out' = [group_out EXCEPT
                              !.frames[last].data = @ \o chunk,
                              !.frames[last].state =
                                  IF n = sub_pc.remain THEN "closed" ELSE @]
                        /\ sub_pc' = IF n = sub_pc.remain
                                     THEN [at |-> "decode_maybe", remain |-> 0]
                                     ELSE [sub_pc EXCEPT !.remain = @ - n]
    /\ UNCHANGED <<group_in, pub_pc, notFrame>>

\* The consumers of the group or of its frame went away: unused() wins the
\* select! (subscriber.rs:251-254 and 307-310) and the Reader is dropped.
SubUnused ==
    /\ sub_pc.at \in {"decode_maybe", "ext", "size", "status", "run_frame"}
    /\ SubFails("Cancel")
    /\ uni' = Stopped(uni)
    /\ UNCHANGED <<group_in, pub_pc, notFrame>>

\* A group whose producer wrote its frames and closed, on a stream just
\* opened, its header written and read.
InitFrames ==
    /\ group_in \in GroupsWritten
    /\ pub_pc = [at |-> "next_frame", frame |-> 0, off |-> 0]
    /\ uni = NoStream
    /\ sub_pc = [at |-> "decode_maybe", remain |-> 0]
    /\ group_out = [state |-> "open", frames |-> <<>>]
    /\ pc = "idle"
    /\ old_group = None /\ new_group = None
    /\ old_sequence = None /\ new_sequence = None
    /\ tasks = <<>> /\ opened = <<>>
    /\ track = "live" /\ cancel = "pending"
    /\ arrived = <<>>
    /\ prio_in = <<0, 0, 0, 0>> /\ prio_out = None
    /\ request_id = [side \in {"client", "server"} |-> 0]
    /\ got = [side \in {"client", "server"} |-> <<>>]
    /\ issued = [side \in {"client", "server"} |-> <<>>]
    /\ session = "running" /\ returned = <<>> /\ closes = <<>>
    /\ wire_in = <<>> /\ decoded = 0 /\ reader = "decode" /\ handled = <<>>
    /\ queue = <<>> /\ written = <<>> /\ sent = <<>>
    /\ subscribes = {} /\ subs = <<>>
    /\ origin = {} /\ announces = <<>> /\ announced = 0
    /\ origin_closed = FALSE
    /\ sub_subscribes = {} /\ aliases = {} /\ broadcasts = {}
    /\ producers = <<>> /\ published = <<>>
    /\ sub_tracks = <<>> /\ streams = <<>>
    /\ ctrl_n = 0 /\ ctrl_msg = None /\ sub_origin = TRUE
    /\ codec_in = None /\ codec_out = None /\ imp = NoImport /\ imp_log = <<>>
    /\ rdr = NoReader

\* The steps of the two run_group tasks and of the Reader between them.
RunGroups ==
    \/ PubNextFrame
    \/ \E n \in 1..MaxSize : PubWriteChunk(n)
    \/ \E k \in 0..(MaxSize + 2) : ReadBuf(k)
    \/ SubDecodeIdDelta \/ SubDecodeSize \/ SubDecodeStatus
    \/ \E k \in 1..MaxSize : SubReadChunk(k)

NextFrames == RunGroups \/ SubUnused \/ PubClosed

SpecFrames == InitFrames /\ [][NextFrames]_vars

(***************************************************************************)
(* The wire codec: the group header (group.rs), the Parameters block       *)
(* (parameters.rs) and the control messages (subscribe.rs,                 *)
(* publish_namespace.rs).  A buffer is a sequence of bytes; a decoder      *)
(* returns an error, or a value and the bytes it left.                     *)
(***************************************************************************)
DecErr(e) == [err |-> e, value |-> <<>>, rest |-> <<>>]
DecOk(v, rest) == [err |-> "Ok", value |-> v, rest |-> rest]

\* The `?` of Rust: the first error is returned, else the decoding goes on.
Try(r, Then(_)) == IF r.err # "Ok" THEN r ELSE Then(r)

\* u64: the variable-length integer.
DecodeU64(buf) ==
    LET d == DecodeVarint(buf)
    IN  IF d.short THEN DecErr("Short") ELSE DecOk(d.value, Rest(buf, d.used))

EncodeU64(n) == EncodeVarint(n)

\* u8: one byte.
DecodeU8(buf) ==
    IF buf = <<>> THEN DecErr("Short") ELSE DecOk(buf[1], Rest(buf, 1))

EncodeU8(b) == <<b>>

\* bool: one byte, 0 or 1, any other is rejected.
DecodeBool(buf) ==
    IF buf = <<>> THEN DecErr("Short")
    ELSE IF buf[1] \notin {0, 1} THEN DecErr("InvalidValue")
    ELSE DecOk(buf[1] = 1, Rest(buf, 1))

EncodeBool(b) == <<IF b THEN 1 ELSE 0>>

\* Vec<u8> and strings: the length, then the bytes.
DecodeVec(buf) ==
    Try(DecodeU64(buf), LAMBDA size :
        IF Len(size.rest) < size.value THEN DecErr("Short")
        ELSE DecOk(SubSeq(size.rest, 1, size.value),
                   Rest(size.rest, size.value)))

EncodeVec(v) == EncodeU64(Len(v)) \o v

\* A Path on the wire: the number of segments, then each segment as a string.
DecodeNamespace(buf) ==
    LET RECURSIVE Segments(_, _, _)
        Segments(n, b, path) ==
            IF n = 0 THEN DecOk(path, b)
            ELSE Try(DecodeVec(b), LAMBDA part :
                     Segments(n - 1, part.rest, Append(path, part.value)))
    IN  Try(DecodeU64(buf), LAMBDA count :
            Segments(count.value, count.rest, <<>>))

EncodeNamespace(path) ==
    LET RECURSIVE Parts(_)
        Parts(i) == IF i > Len(path) THEN <<>>
                    ELSE EncodeVec(path[i]) \o Parts(i + 1)
    IN  EncodeU64(Len(path)) \o Parts(1)

\* GroupOrder: Ascending 0x1, Descending 0x2, every other value an error.
DecodeGroupOrder(buf) ==
    Try(DecodeU8(buf), LAMBDA v :
        IF v.value = 1 THEN DecOk("Ascending", v.rest)
        ELSE IF v.value = 2 THEN DecOk("Descending", v.rest)
        ELSE DecErr("InvalidValue"))

EncodeGroupOrder(order) == EncodeU8(IF order = "Ascending" THEN 1 ELSE 2)

\* Location::decode, location.rs: group and object.
DecodeLocation(buf) ==
    Try(DecodeU64(buf), LAMBDA group :
    Try(DecodeU64(group.rest), LAMBDA object :
        DecOk([group |-> group.value, object |-> object.value], object.rest)))

\* ---- Parameters, parameters.rs ----
MAX_PARAMS == 64

\* Parameters::decode, parameters.rs:11-31.
DecodeParameters(buf) ==
    LET RECURSIVE Params(_, _, _)
        Params(n, b, map) ==
            IF n = 0 THEN DecOk(map, b)
            ELSE Try(DecodeU64(b), LAMBDA kind :
                     IF kind.value \in DOMAIN map THEN DecErr("Duplicate")
                     ELSE Try(DecodeVec(kind.rest), LAMBDA data :
                              Params(n - 1, data.rest,
                                      map @@ (kind.value :> data.value))))
    IN  Try(DecodeU64(buf), LAMBDA count :
            IF count.value > MAX_PARAMS THEN DecErr("TooMany")
            ELSE Params(count.value, count.rest, <<>>))

\* ---- FilterType, subscribe.rs:15-34 ----
FilterTypes ==
    (1 :> "NextGroup") @@ (2 :> "LargestObject") @@ (3 :> "AbsoluteStart")
    @@ (4 :> "AbsoluteRange")

DecodeFilterType(buf) ==
    Try(DecodeU64(buf), LAMBDA v :
        IF v.value \in DOMAIN FilterTypes
        THEN DecOk(FilterTypes[v.value], v.rest)
        ELSE DecErr("InvalidValue"))

EncodeFilterType(f) ==
    EncodeU64(CHOOSE v \in DOMAIN FilterTypes : FilterTypes[v] = f)

\* ---- Subscribe, subscribe.rs:48-108 ----
DecodeSubscribe(buf) ==
    Try(DecodeU64(buf), LAMBDA req :
    Try(DecodeNamespace(req.rest), LAMBDA track_namespace :
    Try(DecodeVec(track_namespace.rest), LAMBDA track_name :
    Try(DecodeU8(track_name.rest), LAMBDA subscriber_priority :
    Try(DecodeGroupOrder(subscriber_priority.rest), LAMBDA group_order :
    Try(DecodeBool(group_order.rest), LAMBDA forward :
        IF ~forward.value THEN DecErr("Unsupported")
        ELSE
    Try(DecodeFilterType(forward.rest), LAMBDA filter_type :
    Try(CASE filter_type.value = "AbsoluteStart" ->
                 DecodeLocation(filter_type.rest)
          [] filter_type.value = "AbsoluteRange" ->
                 Try(DecodeLocation(filter_type.rest), LAMBDA start :
                     DecodeU64(start.rest))
          [] OTHER -> DecOk(<<>>, filter_type.rest), LAMBDA filter :
    Try(DecodeParameters(filter.rest), LAMBDA params :
        DecOk([request_id |-> req.value,
               track_namespace |-> track_namespace.value,
               track_name |-> track_name.value,
               subscriber_priority |-> subscriber_priority.value,
               group_order |-> group_order.value,
               filter_type |-> filter_type.value], params.rest))))))))))

\* The assert of Subscribe::encode, subscribe.rs:100-103.
SubscribePanics(m) == m.filter_type \in {"AbsoluteStart", "AbsoluteRange"}

EncodeSubscribe(m) ==
    EncodeU64(m.request_id) \o EncodeNamespace(m.track_namespace)
    \o EncodeVec(m.track_name) \o EncodeU8(m.subscriber_priority)
    \o EncodeGroupOrder("Descending") \o EncodeBool(TRUE)
    \o EncodeFilterType(m.filter_type) \o EncodeU8(0)

\* ---- SubscribeOk, subscribe.rs:111-156 ----
EncodeSubscribeOk(m) ==
    EncodeU64(m.request_id) \o EncodeU64(m.track_alias) \o EncodeU64(0)
    \o EncodeGroupOrder("Descending") \o EncodeBool(FALSE) \o EncodeU8(0)

DecodeSubscribeOk(buf) ==
    Try(DecodeU64(buf), LAMBDA req :
    Try(DecodeU64(req.rest), LAMBDA track_alias :
    Try(DecodeU64(track_alias.rest), LAMBDA expires :
        IF expires.value # 0 THEN DecErr("Unsupported")
        ELSE
    Try(DecodeU8(expires.rest), LAMBDA group_order :
    Try(DecodeBool(group_order.rest), LAMBDA content :
    Try(IF content.value THEN DecodeLocation(content.rest)
        ELSE DecOk(<<>>, content.rest), LAMBDA largest :
    Try(DecodeParameters(largest.rest), LAMBDA params :
        DecOk([request_id |-> req.value,
               track_alias |-> track_alias.value], params.rest))))))))

\* ---- SubscribeError, subscribe.rs:158-185 ----
EncodeSubscribeError(m) ==
    EncodeU64(m.request_id) \o EncodeU64(m.error_code)
    \o EncodeVec(m.reason_phrase)

DecodeSubscribeError(buf) ==
    Try(DecodeU64(buf), LAMBDA req :
    Try(DecodeU64(req.rest), LAMBDA error_code :
    Try(DecodeVec(error_code.rest), LAMBDA reason_phrase :
        DecOk([request_id |-> req.value,
               error_code |-> error_code.value,
               reason_phrase |-> reason_phrase.value], reason_phrase.rest))))

\* ---- Unsubscribe, subscribe.rs:187-205 ----
EncodeUnsubscribe(m) == EncodeU64(m.request_id)

DecodeUnsubscribe(buf) ==
    Try(DecodeU64(buf), LAMBDA req :
        DecOk([request_id |-> req.value], req.rest))

\* ---- PublishNamespace, publish_namespace.rs:17-38 ----
EncodePublishNamespace(m) ==
    EncodeU64(m.request_id) \o EncodeNamespace(m.track_namespace)
    \o EncodeU8(0)

DecodePublishNamespace(buf) ==
    Try(DecodeU64(buf), LAMBDA req :
    Try(DecodeNamespace(req.rest), LAMBDA track_namespace :
    Try(DecodeParameters(track_namespace.rest), LAMBDA params :
        DecOk([request_id |-> req.value,
               track_namespace |-> track_namespace.value], params.rest))))

\* ---- PublishNamespaceDone, publish_namespace.rs:92-104 ----
EncodePublishNamespaceDone(m) == EncodeNamespace(m.track_namespace)

DecodePublishNamespaceDone(buf) ==
    Try(DecodeNamespace(buf), LAMBDA track_namespace :
        DecOk([track_namespace |-> track_namespace.value],
              track_namespace.rest))

\* ---- PublishNamespaceCancel, publish_namespace.rs:114-134 ----
EncodePublishNamespaceCancel(m) ==
    EncodeNamespace(m.track_namespace) \o EncodeU64(m.error_code)
    \o EncodeVec(m.reason_phrase)

DecodePublishNamespaceCancel(buf) ==
    Try(DecodeNamespace(buf), LAMBDA track_namespace :
    Try(DecodeU64(track_namespace.rest), LAMBDA error_code :
    Try(DecodeVec(error_code.rest), LAMBDA reason_phrase :
        DecOk([track_namespace |-> track_namespace.value,
               error_code |-> error_code.value,
               reason_phrase |-> reason_phrase.value], reason_phrase.rest))))

\* ---- Group, group.rs:5-95 ----
SUBGROUP_ID == 0

\* The assert of Group::encode, group.rs:26-29.
GroupPanics(m) == m.has_subgroup /\ m.has_subgroup_object

\* Group::encode, group.rs:24-55.  The flags are distinct bits of the id, so
\* the or of them is their sum.
EncodeGroup(m) ==
    LET id == 16 + (IF m.has_extensions THEN 1 ELSE 0)
                 + (IF m.has_subgroup THEN 2 ELSE 0)
                 + (IF m.has_subgroup_object THEN 4 ELSE 0)
                 + (IF m.has_end THEN 8 ELSE 0)
    IN  EncodeU8(id) \o EncodeU64(m.request_id) \o EncodeU64(m.group_id)
        \o (IF m.has_subgroup THEN EncodeU8(SUBGROUP_ID) ELSE <<>>)
        \o EncodeU8(0)

\* The lowest bit tested whatever the mask.
BitSet_Low(id, bit) == id % 2 = 1

\* (id & bit) != 0, for a bit that is a power of two.
BitSet(id, bit) == (id \div bit) % 2 = 1

\* Group::decode, group.rs:58-95.
DecodeGroup(buf) ==
    Try(DecodeU64(buf), LAMBDA id :
        IF ~(id.value >= 16 /\ id.value <= 29) THEN DecErr("InvalidValue")
        ELSE IF BitSet(id.value, 2) /\ BitSet(id.value, 4)
        THEN DecErr("InvalidValue")
        ELSE
    Try(DecodeU64(id.rest), LAMBDA req :
    Try(DecodeU64(req.rest), LAMBDA group_id :
    Try(IF BitSet(id.value, 2)
        THEN Try(DecodeU8(group_id.rest), LAMBDA subgroup_id :
                 IF subgroup_id.value # SUBGROUP_ID THEN DecErr("Unsupported")
                 ELSE subgroup_id)
        ELSE DecOk(<<>>, group_id.rest), LAMBDA subgroup :
    Try(DecodeU8(subgroup.rest), LAMBDA publisher_priority :
        DecOk([request_id |-> req.value,
               group_id |-> group_id.value,
               has_extensions |-> BitSet(id.value, 1),
               has_subgroup |-> BitSet(id.value, 2),
               has_subgroup_object |-> BitSet(id.value, 4),
               has_end |-> BitSet(id.value, 8)],
              publisher_priority.rest))))))

\* ---- Message, message.rs: encode and decode of a message type ----
MessageTypes ==
    {"Subscribe", "SubscribeOk", "SubscribeError", "Unsubscribe",
     "PublishNamespace", "PublishNamespaceDone", "PublishNamespaceCancel"}

Panics(type, m) ==
    CASE type = "Subscribe" -> SubscribePanics(m)
      [] type = "Group" -> GroupPanics(m)
      [] OTHER -> FALSE

Encode(type, m) ==
    CASE type = "Subscribe" -> EncodeSubscribe(m)
      [] type = "SubscribeOk" -> EncodeSubscribeOk(m)
      [] type = "SubscribeError" -> EncodeSubscribeError(m)
      [] type = "Unsubscribe" -> EncodeUnsubscribe(m)
      [] type = "PublishNamespace" -> EncodePublishNamespace(m)
      [] type = "PublishNamespaceDone" -> EncodePublishNamespaceDone(m)
      [] type = "PublishNamespaceCancel" -> EncodePublishNamespaceCancel(m)
      [] type = "Group" -> EncodeGroup(m)

Decode(type, buf) ==
    CASE type = "Subscribe" -> DecodeSubscribe(buf)
      [] type = "SubscribeOk" -> DecodeSubscribeOk(buf)
      [] type = "SubscribeError" -> DecodeSubscribeError(buf)
      [] type = "Unsubscribe" -> DecodeUnsubscribe(buf)
      [] type = "PublishNamespace" -> DecodePublishNamespace(buf)
      [] type = "PublishNamespaceDone" -> DecodePublishNamespaceDone(buf)
      [] type = "PublishNamespaceCancel" -> DecodePublishNamespaceCancel(buf)
      [] type = "Group" -> DecodeGroup(buf)

\* ---- the values and the buffers the codecs are applied to ----
\* Sequences over S of a length up to n.
SeqUpTo(S, n) == UNION {[1..k -> S] : k \in 0..n}

MaxTail == 4
MaxParamBytes == 4

\* u64 values of one and of two bytes on the wire.
U64s == {0, 1, 63, 64, 500}
\* Strings (their bytes) and paths: "a", "ab" and a nested namespace.
Strings == {<<>>, <<97>>, <<97, 98>>}
Namespaces14 == {<<>>, <<<<97>>>>, <<<<97>>, <<98, 99>>>>}
Priorities == {0, 128, 255}

Messages(type) ==
    CASE type = "Subscribe" ->
             [request_id : {1, 64}, track_namespace : Namespaces14,
              track_name : {<<97>>}, subscriber_priority : Priorities,
              group_order : {"Ascending", "Descending"},
              filter_type : {FilterTypes[v] : v \in DOMAIN FilterTypes}]
      [] type = "SubscribeOk" -> [request_id : U64s, track_alias : U64s]
      [] type = "SubscribeError" ->
             [request_id : {1, 64}, error_code : U64s, reason_phrase : Strings]
      [] type = "Unsubscribe" -> [request_id : U64s]
      [] type = "PublishNamespace" ->
             [request_id : U64s, track_namespace : Namespaces14]
      [] type = "PublishNamespaceDone" -> [track_namespace : Namespaces14]
      [] type = "PublishNamespaceCancel" ->
             [track_namespace : Namespaces14, error_code : {1, 500},
              reason_phrase : Strings]
      [] type = "Group" ->
             [request_id : {1, 64}, group_id : U64s,
              has_extensions : BOOLEAN, has_subgroup : BOOLEAN,
              has_subgroup_object : BOOLEAN, has_end : BOOLEAN]

\* The bytes of a message up to its parameter block.
Heads(type) ==
    CASE type = "Subscribe" ->
             {EncodeU64(m.request_id) \o EncodeNamespace(m.track_namespace)
              \o EncodeVec(m.track_name) \o EncodeU8(m.subscriber_priority)
              \o EncodeGroupOrder(m.group_order) \o EncodeBool(TRUE)
              \o EncodeFilterType(m.filter_type) :
                  m \in {s \in Messages("Subscribe") :
                             /\ ~SubscribePanics(s)
                             /\ s.subscriber_priority = 128}}
      [] type = "PublishNamespace" ->
             {EncodeU64(m.request_id) \o EncodeNamespace(m.track_namespace) :
                  m \in {p \in Messages("PublishNamespace") :
                             p.request_id \in {1, 64}}}
             \* test_announce_rejects_parameters, publish_namespace.rs:208-219
             \cup {<<1, 4, 116, 101, 115, 116>>}

\* Parameter blocks: well formed ones without and with entries, short ones,
\* a duplicate key, and a count of 65.
ParamBlocks == SeqUpTo({0, 1, 2}, MaxParamBytes) \cup {<<64, 65>>}

\* Group headers on the wire: every first byte around the range of the ids,
\* an id in two bytes, and what follows.
GroupBuffers ==
    {id \o tail : id \in {<<b>> : b \in 14..33} \cup {<<64, 17>>, <<64, 64>>},
                  tail \in SeqUpTo({0, 1, 64}, MaxTail)}

InitCodec ==
    /\ \/ \E type \in {"Subscribe", "PublishNamespace"} :
              codec_in \in [op : {"decode"}, type : {type},
                            head : Heads(type), params : ParamBlocks]
       \/ codec_in \in [op : {"decode"}, type : {"Group"},
                        head : {<<>>}, params : GroupBuffers]
       \/ \E type \in MessageTypes \cup {"Group"} :
              codec_in \in [op : {"encode"}, type : {type},
                            msg : Messages(type)]
    /\ codec_out = None
    /\ imp = NoImport /\ imp_log = <<>>
    /\ rdr = NoReader
    /\ pc = "idle"
    /\ old_group = None /\ new_group = None
    /\ old_sequence = None /\ new_sequence = None
    /\ tasks = <<>> /\ opened = <<>>
    /\ track = "live" /\ cancel = "pending"
    /\ arrived = <<>>
    /\ prio_in = <<0, 0, 0, 0>> /\ prio_out = None
    /\ request_id = [side \in {"client", "server"} |-> 0]
    /\ got = [side \in {"client", "server"} |-> <<>>]
    /\ issued = [side \in {"client", "server"} |-> <<>>]
    /\ session = "running" /\ returned = <<>> /\ closes = <<>>
    /\ wire_in = <<>> /\ decoded = 0 /\ reader = "decode" /\ handled = <<>>
    /\ queue = <<>> /\ written = <<>> /\ sent = <<>>
    /\ subscribes = {} /\ subs = <<>>
    /\ origin = {} /\ announces = <<>> /\ announced = 0
    /\ origin_closed = FALSE
    /\ sub_subscribes = {} /\ aliases = {} /\ broadcasts = {}
    /\ producers = <<>> /\ published = <<>>
    /\ sub_tracks = <<>> /\ streams = <<>>
    /\ ctrl_n = 0 /\ ctrl_msg = None /\ sub_origin = TRUE
    /\ group_in = <<>> /\ pub_pc = NoTask /\ uni = NoStream
    /\ sub_pc = NoTask /\ group_out = NoGroup

\* M::decode on a buffer, as decode_message does (subscribe.rs:271-274).
DecodeMessage ==
    /\ codec_in # None /\ codec_in.op = "decode" /\ codec_out = None
    /\ codec_in.type # "Group"
    /\ codec_out' = Some([panic |-> FALSE,
                          encoded |-> codec_in.head \o codec_in.params,
                          decoded |-> Decode(codec_in.type,
                                             codec_in.head \o codec_in.params)])
    /\ UNCHANGED <<codec_in, notCodec>>

\* Group::decode on the first bytes of a data stream.
DecodeHeader ==
    /\ codec_in # None /\ codec_in.op = "decode" /\ codec_out = None
    /\ codec_in.type = "Group"
    /\ codec_out' = Some([panic |-> FALSE,
                          encoded |-> codec_in.params,
                          decoded |-> DecodeGroup(codec_in.params)])
    /\ UNCHANGED <<codec_in, notCodec>>

\* msg.encode into an empty buffer, then M::decode of what was written
\* (encode_message and decode_message, subscribe.rs:265-274).  An assert of
\* the encoder that fails ends it there.
EncodeDecode ==
    /\ codec_in # None /\ codec_in.op = "encode" /\ codec_out = None
    /\ codec_out' =
           IF Panics(codec_in.type, codec_in.msg)
           THEN Some([panic |-> TRUE, encoded |-> <<>>,
                      decoded |-> DecErr("-")])
           ELSE LET encoded == Encode(codec_in.type, codec_in.msg)
                IN  Some([panic |-> FALSE, encoded |-> encoded,
                          decoded |-> Decode(codec_in.type, encoded)])
    /\ UNCHANGED <<codec_in, notCodec>>

NextCodec == DecodeMessage \/ DecodeHeader \/ EncodeDecode

SpecCodec == InitCodec /\ [][NextCodec]_vars

(***************************************************************************)
(* hang: cmaf::Import (import.rs).  Atoms are fed one at a time            *)
(* (parse_inner, import.rs:92-109) and process handles each of them.       *)
(***************************************************************************)
MaxAtoms == 7
MaxMdat == 2

\* mdhd.timescale of the tracks: ticks in a second.
Timescale == 2
\* tfdt.base_media_decode_time, in ticks: 0 s, 10 s and 10.5 s.
DecodeTimes == {0, 20, 21}
\* The duration of a sample, in ticks.
Durations == {20, 21}
\* The size of a moof atom, and of the header of an mdat atom
\* (size - mdat.data.len(), import.rs:431).
MoofSize == 3
HeaderSize == 2
\* usize, its width reduced.
Usize == 65536

\* The traks of the moov: one video track and two audio tracks.
VideoTracks == {1}
AudioTracks == {2, 3}

\* A moof of one traf with one trun.  `key` stands for the sample flags of
\* its first sample (depends on no other, sync); the other samples of the
\* trun are not keyframes.  All samples have the duration of the tfhd.
Moof(track_id, key, dts, duration, base, data_offset, sizes) ==
    [kind |-> "moof", ok |-> TRUE, track |-> track_id, key |-> key, dts |-> dts,
     duration |-> duration, base |-> base, data_offset |-> data_offset,
     sizes |-> sizes, len |-> 0]

Plain(kind) ==
    [kind |-> kind, ok |-> TRUE, track |-> 0, key |-> FALSE, dts |-> 0,
     duration |-> 0, base |-> 0, data_offset |-> None, sizes |-> <<>>,
     len |-> 0]

\* A fragment whose samples lie at the start of the mdat.
Timed(track_id, key, dts, duration, sizes) ==
    Moof(track_id, key, dts, duration, 0, Some(MoofSize + HeaderSize), sizes)

Mdats == {[Plain("mdat") EXCEPT !.len = len] : len \in 1..MaxMdat}

\* The atoms of a file: the ftyp, a moov (one that is ok and one that holds
\* a subtitle track), an atom process does not know, a fragment of the video
\* track, one of a track the moov does not have, and the mdat.
BoxAtoms ==
    {Plain("ftyp"), Plain("free")}
    \cup {[Plain("moov") EXCEPT !.ok = ok] : ok \in BOOLEAN}
    \cup {Timed(1, TRUE, 0, 1, <<1>>), Timed(4, FALSE, 0, 1, <<1>>)}
    \cup {m \in Mdats : m.len = MaxMdat}

\* Fragments of the video track, with and without a keyframe, and of the two
\* audio tracks at every decode time, of one and of two samples.
TimedAtoms ==
    {Plain("moov")}
    \cup {Timed(1, key, 0, 1, <<1>>) : key \in BOOLEAN}
    \cup {Timed(track_id, FALSE, dts, 1, <<1>>) :
              track_id \in AudioTracks, dts \in DecodeTimes}
    \cup {Timed(2, FALSE, 0, duration, <<1, 1>>) : duration \in Durations}
    \cup {m \in Mdats : m.len = MaxMdat}

\* Fragments of the video track with every kind of offset: none, negative,
\* below the moof size, inside the header of the mdat, at its payload and
\* behind it.
PlacedAtoms ==
    {Plain("moov")}
    \cup {Moof(1, FALSE, 0, 1, 0, data_offset, sizes) :
              data_offset \in {None} \cup
                  {Some(d) : d \in {-1, MoofSize - 1, MoofSize, MoofSize + 1,
                                    MoofSize + HeaderSize,
                                    MoofSize + HeaderSize + 1}},
              sizes \in {<<1>>, <<1, 1>>}}
    \* tfhd.base_data_offset given
    \cup {Moof(1, FALSE, 0, 1, 1, data_offset, sizes) :
              data_offset \in {None, Some(MoofSize + 1)},
              sizes \in {<<1>>, <<1, 1>>}}
    \cup Mdats

\* Import::new, import.rs:59-71, and the build: with or without overflow
\* checks.
NewImport(checks) ==
    [state |-> "open", checks |-> checks, moov |-> FALSE, tracks |-> {},
     moof |-> None, moof_size |-> 0, moofs |-> 0, last_keyframe |-> <<>>]

\* Timestamp::from_micros(1_000_000 * pts / timescale), import.rs:513.
Micros(pts) == (1000000 * pts) \div Timescale
TenSeconds == 10000000

\* (flags >> 24) & 0x3 == 0x2 and not (flags >> 16) & 0x1, import.rs:518-531,
\* and the rule of the audio tracks, import.rs:533-539.
Keyframe(track_id, flagged, timestamp, last_keyframe) ==
    IF track_id \in VideoTracks THEN flagged
    ELSE IF track_id \in DOMAIN last_keyframe
         THEN timestamp - last_keyframe[track_id] > TenSeconds
         ELSE TRUE

\* The entries of the audio tracks kept over a video keyframe.
Recorded_KeepsAudio(track_id, keyframe, timestamp, last_keyframe) ==
    LET keys == IF keyframe THEN DOMAIN last_keyframe \cup {track_id}
                ELSE DOMAIN last_keyframe
    IN  [t \in keys |-> IF keyframe /\ t = track_id THEN timestamp
                        ELSE last_keyframe[t]]

\* import.rs:524-527 and 541-543: a video keyframe removes the entries of
\* the audio tracks of the moov; a keyframe is recorded for its track.
Recorded(track_id, keyframe, timestamp, last_keyframe) ==
    LET kept == IF track_id \in VideoTracks /\ keyframe
                THEN DOMAIN last_keyframe \ AudioTracks
                ELSE DOMAIN last_keyframe
        keys == IF keyframe THEN kept \cup {track_id} ELSE kept
    IN  [t \in keys |-> IF keyframe /\ t = track_id THEN timestamp
                        ELSE last_keyframe[t]]

\* The offset a trun starts at, import.rs:486-497: an error, a panic of the
\* subtraction when the build checks overflow, or the offset (wrapped when
\* it does not).
TrunOffset(m, moof_size, header_size, checks) ==
    IF m.data_offset = None THEN [result |-> "Ok", offset |-> m.base]
    ELSE LET data_offset == m.data_offset[1]
             exact == m.base + data_offset - moof_size - header_size
         IN  IF data_offset < 0 THEN [result |-> "InvalidOffset", offset |-> 0]
             ELSE IF data_offset < moof_size
             THEN [result |-> "InvalidOffset", offset |-> 0]
             ELSE IF exact < 0 /\ checks
             THEN [result |-> "panic", offset |-> 0]
             ELSE [result |-> "Ok", offset |-> exact % Usize]

\* The loop over the entries of the trun, import.rs:499-564: the frames
\* written and how the loop ended.
Samples(m, start, mdat_len, checks, last_keyframe) ==
    LET RECURSIVE Entry(_, _, _, _, _)
        Entry(i, offset, dts, last, frames) ==
            IF i > Len(m.sizes)
            THEN [result |-> "Ok", frames |-> frames, last_keyframe |-> last]
            ELSE LET size == m.sizes[i]
                     timestamp == Micros(dts)
                     end == (offset + size) % Usize
                     keyframe == Keyframe(m.track, m.key /\ i = 1, timestamp,
                                          last)
                     after == Recorded(m.track, keyframe, timestamp, last)
                 IN  IF offset + size >= Usize /\ checks
                     THEN [result |-> "panic", frames |-> frames,
                           last_keyframe |-> last]
                     ELSE IF end > mdat_len
                     THEN [result |-> "InvalidOffset", frames |-> frames,
                           last_keyframe |-> last]
                     \* Bytes::slice(offset..end) with offset > end
                     ELSE IF offset > end
                     THEN [result |-> "panic", frames |-> frames,
                           last_keyframe |-> after]
                     ELSE Entry(i + 1, end, dts + m.duration, after,
                                Append(frames,
                                       [track |-> m.track,
                                        timestamp |-> timestamp,
                                        keyframe |-> keyframe,
                                        offset |-> offset, size |-> size]))
    IN  Entry(1, start, m.dts, last_keyframe, <<>>)

\* Import::extract, import.rs:444-575, for the pending moof m.
Extract(mdat_len, header_size) ==
    IF ~imp.moov
    THEN [result |-> "MissingBox(moov)", frames |-> <<>>, took |-> FALSE,
          last_keyframe |-> imp.last_keyframe]
    ELSE IF imp.moof = None
    THEN [result |-> "MissingBox(moof)", frames |-> <<>>, took |-> FALSE,
          last_keyframe |-> imp.last_keyframe]
    ELSE LET m == imp.moof[1]
             start == TrunOffset(m, imp.moof_size, header_size, imp.checks)
         IN  IF m.track \notin imp.tracks
             THEN [result |-> "UnknownTrack", frames |-> <<>>, took |-> TRUE,
                   last_keyframe |-> imp.last_keyframe]
             ELSE IF start.result # "Ok"
             THEN [result |-> start.result, frames |-> <<>>, took |-> TRUE,
                   last_keyframe |-> imp.last_keyframe]
             ELSE LET run == Samples(m, start.offset, mdat_len, imp.checks,
                                     imp.last_keyframe)
                  IN  [result |-> run.result, frames |-> run.frames,
                       took |-> TRUE, last_keyframe |-> run.last_keyframe]

\* parse_inner hands the next atom to process, import.rs:98-101, and
\* read_from returns at the first error, import.rs:399-400.  Fragments of an
\* audio track come in the order of their time.
Fed(atom) ==
    /\ imp.state = "open"
    /\ Len(imp_log) < MaxAtoms
    /\ \A i \in 1..Len(imp_log) : imp_log[i].result = "Ok"
    /\ atom.kind = "moof" /\ atom.track \in AudioTracks =>
           \A t \in DOMAIN imp.last_keyframe :
               Micros(atom.dts) >= imp.last_keyframe[t]

Logged(atom, result, frames, moof) ==
    imp_log' = Append(imp_log, [atom |-> atom, result |-> result,
                                frames |-> frames, moof |-> moof])

\* process, import.rs:413-415 and 434-437: ftyp, styp and unknown atoms.
ProcessSkip(atom) ==
    /\ Fed(atom) /\ atom.kind \in {"ftyp", "free"}
    /\ Logged(atom, "Ok", <<>>, 0)
    /\ UNCHANGED <<imp, notImport>>

\* process, import.rs:416-419, and init, import.rs:111-177.  A moov that is
\* not ok holds a subtitle track: init returns before it keeps the moov.
ProcessMoov(atom) ==
    /\ Fed(atom) /\ atom.kind = "moov"
    /\ IF atom.ok
       THEN /\ imp' = [imp EXCEPT !.moov = TRUE,
                                  !.tracks = VideoTracks \cup AudioTracks]
            /\ Logged(atom, "Ok", <<>>, 0)
       ELSE /\ Logged(atom, "UnsupportedTrack", <<>>, 0)
            /\ UNCHANGED imp
    /\ UNCHANGED notImport

\* The moof kept whatever is pending.
ProcessMoof_Replaces(atom) ==
    /\ Fed(atom) /\ atom.kind = "moof"
    /\ imp' = [imp EXCEPT !.moof = Some(atom), !.moof_size = MoofSize,
                          !.moofs = @ + 1]
    /\ Logged(atom, "Ok", <<>>, 0)
    /\ UNCHANGED notImport

\* process, import.rs:420-428.
ProcessMoof(atom) ==
    /\ Fed(atom) /\ atom.kind = "moof"
    /\ IF imp.moof # None
       THEN /\ Logged(atom, "DuplicateBox(moof)", <<>>, 0)
            /\ UNCHANGED imp
       ELSE /\ imp' = [imp EXCEPT !.moof = Some(atom), !.moof_size = MoofSize,
                                  !.moofs = @ + 1]
            /\ Logged(atom, "Ok", <<>>, 0)
    /\ UNCHANGED notImport

\* process, import.rs:429-433, and extract.
ProcessMdat(atom) ==
    /\ Fed(atom) /\ atom.kind = "mdat"
    /\ LET out == Extract(atom.len, HeaderSize)
       IN  /\ imp' = [imp EXCEPT
                          !.moof = IF out.took THEN None ELSE @,
                          !.last_keyframe = out.last_keyframe,
                          !.state = IF out.result = "panic" THEN "dead" ELSE @]
           /\ Logged(atom, out.result, out.frames,
                     IF out.took THEN imp.moofs ELSE 0)
    /\ UNCHANGED notImport

InitImport ==
    /\ imp \in {NewImport(checks) : checks \in BOOLEAN}
    /\ imp_log = <<>>
    /\ rdr = NoReader
    /\ codec_in = None /\ codec_out = None
    /\ pc = "idle"
    /\ old_group = None /\ new_group = None
    /\ old_sequence = None /\ new_sequence = None
    /\ tasks = <<>> /\ opened = <<>>
    /\ track = "live" /\ cancel = "pending"
    /\ arrived = <<>>
    /\ prio_in = <<0, 0, 0, 0>> /\ prio_out = None
    /\ request_id = [side \in {"client", "server"} |-> 0]
    /\ got = [side \in {"client", "server"} |-> <<>>]
    /\ issued = [side \in {"client", "server"} |-> <<>>]
    /\ session = "running" /\ returned = <<>> /\ closes = <<>>
    /\ wire_in = <<>> /\ decoded = 0 /\ reader = "decode" /\ handled = <<>>
    /\ queue = <<>> /\ written = <<>> /\ sent = <<>>
    /\ subscribes = {} /\ subs = <<>>
    /\ origin = {} /\ announces = <<>> /\ announced = 0
    /\ origin_closed = FALSE
    /\ sub_subscribes = {} /\ aliases = {} /\ broadcasts = {}
    /\ producers = <<>> /\ published = <<>>
    /\ sub_tracks = <<>> /\ streams = <<>>
    /\ ctrl_n = 0 /\ ctrl_msg = None /\ sub_origin = TRUE
    /\ group_in = <<>> /\ pub_pc = NoTask /\ uni = NoStream
    /\ sub_pc = NoTask /\ group_out = NoGroup

Process(atom) ==
    ProcessMoov(atom) \/ ProcessMoof(atom) \/ ProcessMdat(atom)

NextImport == \E atom \in BoxAtoms : ProcessSkip(atom) \/ Process(atom)

SpecImport == InitImport /\ [][NextImport]_vars

\* The same importer fed fragments that differ in track and time.
NextKeyframes == \E atom \in TimedAtoms : Process(atom)

SpecKeyframes == InitImport /\ [][NextKeyframes]_vars

\* The same importer fed fragments that differ in their offsets.
NextOffsets == \E atom \in PlacedAtoms : Process(atom)

SpecOffsets == InitImport /\ [][NextOffsets]_vars

(***************************************************************************)
(* coding::Reader, reader.rs: one call of read_exact, as run_control_read  *)
(* makes it for the body of a control message (session.rs:71), or one call *)
(* of skip followed by the decode of the next varint, as the subscriber's  *)
(* run_group makes them for an object with extensions (subscriber.rs:      *)
(* 285-290).  The Reader holds `buffer`, the bytes earlier decodes read    *)
(* and did not use; `wire` is what the stream still delivers, and `end`    *)
(* what comes behind it: "fin" (the peer finished the stream: read_buf and *)
(* read_chunk give None), "reset" (they give an error) or "open" (they     *)
(* stay pending).                                                          *)
(***************************************************************************)
\* The largest `size` a call is given.
MaxBody == 3
\* The most bytes the stream holds when the call is made.
MaxStream == 4

\* The body bytes of a control message, numbered.
BodyBytes(k) == [i \in 1..k |-> i]

\* An object with n bytes of extensions (each 7), then its size (1) and its
\* payload (one byte, 9): what follows the extension length on the stream.
ObjectBytes(n) == [i \in 1..n |-> 7] \o <<1, 9>>

\* The Reader when the call is made: b of the bytes are buffered already.
NewReader(op, size, content, b, end) ==
    [pc |-> "call", op |-> op, declared |-> size, size |-> size,
     content |-> content, buffered |-> b,
     buffer |-> SubSeq(content, 1, b), wire |-> Rest(content, b),
     end |-> end, buf |-> <<>>, eof |-> FALSE, skipped |-> 0, out |-> None]

\* reader.rs:92-103: the fast path, or the buffered bytes are moved to `buf`
\* (fewer than `size`: the buffer is left empty) and the loop is entered.
ReadExact ==
    /\ rdr.pc = "call" /\ rdr.op = "read_exact"
    /\ IF Len(rdr.buffer) >= rdr.size
       THEN rdr' = [rdr EXCEPT !.pc = "Ok",
                               !.out = Some(SubSeq(rdr.buffer, 1, rdr.size)),
                               !.buffer = Rest(@, rdr.size)]
       ELSE rdr' = [rdr EXCEPT !.pc = "loop", !.buf = rdr.buffer,
                               !.buffer = <<>>]
    /\ UNCHANGED notReader

\* reader.rs:105-112: one turn of `while buf.has_remaining_mut()`.  read_buf
\* puts k bytes in `buf`, which is limited to `size`; at the end of the
\* stream it gives Ok(None), which the loop does not look at; an error of
\* the stream is returned.
ReadExactPoll(k) ==
    /\ rdr.pc = "loop" /\ rdr.op = "read_exact"
    /\ IF rdr.wire # <<>>
       THEN /\ k \in 1..Len(rdr.wire) /\ k <= rdr.size - Len(rdr.buf)
            /\ LET filled == rdr.buf \o SubSeq(rdr.wire, 1, k)
               IN  rdr' = [rdr EXCEPT
                             !.buf = filled, !.wire = Rest(@, k),
                             !.pc = IF Len(filled) = rdr.size THEN "Ok"
                                    ELSE "loop",
                             !.out = IF Len(filled) = rdr.size
                                     THEN Some(filled) ELSE None]
       ELSE /\ k = 0
            /\ \/ rdr.end = "fin" /\ rdr' = [rdr EXCEPT !.eof = TRUE]
               \/ rdr.end = "reset" /\ rdr' = [rdr EXCEPT !.pc = "Transport"]
    /\ UNCHANGED notReader

\* reader.rs:115-118: the buffered bytes are dropped, at most `size` of them,
\* and `size -= buffered`.  With more bytes buffered than `size` the
\* subtraction overflows: a build with overflow checks panics, one without
\* them wraps (usize is taken Usize wide).  Behind the loop that is not
\* entered, skip returns Ok and run_group decodes the object's size.
Skip ==
    /\ rdr.pc = "call" /\ rdr.op = "skip"
    /\ LET buffered == Len(rdr.buffer)
           dropped == IF rdr.size < buffered THEN rdr.size ELSE buffered
           left == (rdr.size - buffered) % Usize
       IN  \/ /\ buffered > rdr.size
              /\ rdr' = [rdr EXCEPT !.pc = "panic",
                                    !.buffer = Rest(@, dropped),
                                    !.skipped = dropped]
           \/ rdr' = [rdr EXCEPT !.pc = IF left > 0 THEN "loop" ELSE "decode",
                                 !.buffer = Rest(@, dropped),
                                 !.skipped = dropped,
                                 !.size = left]
    /\ UNCHANGED notReader

\* reader.rs:120-130: one turn of `while size > 0`.  read_chunk(size) gives
\* a chunk of k bytes, at most `size`; None at the end of the stream is
\* Decode(Short).
SkipPoll(k) ==
    /\ rdr.pc = "loop" /\ rdr.op = "skip"
    /\ IF rdr.wire # <<>>
       THEN /\ k \in 1..Len(rdr.wire) /\ k <= rdr.size
            /\ rdr' = [rdr EXCEPT !.wire = Rest(@, k),
                                  !.size = @ - k,
                                  !.skipped = @ + k,
                                  !.pc = IF rdr.size = k THEN "decode"
                                         ELSE "loop"]
       ELSE /\ k = 0
            /\ \/ rdr.end = "fin" /\ rdr' = [rdr EXCEPT !.pc = "Short"]
               \/ rdr.end = "reset" /\ rdr' = [rdr EXCEPT !.pc = "Transport"]
    /\ UNCHANGED notReader

\* Reader::decode::<u64>, reader.rs:20-44, for the object's size
\* (subscriber.rs:290): the varint is taken from the buffer, which read_buf
\* fills by k bytes when it is short.
DecodeSize(k) ==
    /\ rdr.pc = "decode"
    /\ LET d == DecodeVarint(rdr.buffer)
       IN  IF ~d.short
           THEN /\ k = 0
                /\ rdr' = [rdr EXCEPT !.pc = "Ok", !.out = Some(d.value),
                                      !.buffer = Rest(@, d.used)]
           ELSE IF rdr.wire # <<>>
           THEN /\ k \in 1..Len(rdr.wire)
                /\ rdr' = [rdr EXCEPT
                              !.buffer = @ \o SubSeq(rdr.wire, 1, k),
                              !.wire = Rest(@, k)]
           ELSE /\ k = 0
                /\ \/ rdr.end = "fin" /\ rdr' = [rdr EXCEPT !.pc = "Short"]
                   \/ rdr.end = "reset"
                      /\ rdr' = [rdr EXCEPT !.pc = "Transport"]
    /\ UNCHANGED notReader

\* The calls followed: read_exact(size) on a stream that holds up to
\* MaxStream bytes, and skip(n) on a stream that holds an object with n
\* bytes of extensions or a prefix of it; any number of the bytes is
\* buffered already.  A pair of Prefixes: the bytes the stream holds, and how
\* many of them are buffered.
Prefixes(n) == {x \in (0..n) \X (0..n) : x[2] <= x[1]}

Readers ==
    {NewReader("read_exact", size, BodyBytes(k[1]), k[2], end) :
        size \in 0..MaxBody, k \in Prefixes(MaxStream),
        end \in {"fin", "reset", "open"}}
    \cup UNION {{NewReader("skip", n, SubSeq(ObjectBytes(n), 1, k[1]), k[2],
                           end) :
                    k \in Prefixes(n + 2), end \in {"fin", "reset", "open"}} :
                 n \in 0..MaxBody}

InitReader ==
    /\ rdr \in Readers
    /\ imp = NoImport /\ imp_log = <<>>
    /\ codec_in = None /\ codec_out = None
    /\ pc = "idle"
    /\ old_group = None /\ new_group = None
    /\ old_sequence = None /\ new_sequence = None
    /\ tasks = <<>> /\ opened = <<>>
    /\ track = "live" /\ cancel = "pending"
    /\ arrived = <<>>
    /\ prio_in = <<0, 0, 0, 0>> /\ prio_out = None
    /\ request_id = [side \in {"client", "server"} |-> 0]
    /\ got = [side \in {"client", "server"} |-> <<>>]
    /\ issued = [side \in {"client", "server"} |-> <<>>]
    /\ session = "running" /\ returned = <<>> /\ closes = <<>>
    /\ wire_in = <<>> /\ decoded = 0 /\ reader = "decode" /\ handled = <<>>
    /\ queue = <<>> /\ written = <<>> /\ sent = <<>>
    /\ subscribes = {} /\ subs = <<>>
    /\ origin = {} /\ announces = <<>> /\ announced = 0
    /\ origin_closed = FALSE
    /\ sub_subscribes = {} /\ aliases = {} /\ broadcasts = {}
    /\ producers = <<>> /\ published = <<>>
    /\ sub_tracks = <<>> /\ streams = <<>>
    /\ ctrl_n = 0 /\ ctrl_msg = None /\ sub_origin = TRUE
    /\ group_in = <<>> /\ pub_pc = NoTask /\ uni = NoStream
    /\ sub_pc = NoTask /\ group_out = NoGroup

NextReader ==
    \/ ReadExact
    \/ \E k \in 0..MaxStream : ReadExactPoll(k)
    \/ Skip
    \/ \E k \in 0..(MaxBody + 2) : SkipPoll(k)
    \/ \E k \in 0..(MaxBody + 2) : DecodeSize(k)

SpecReader == InitReader /\ [][NextReader]_vars

\* The same calls with the Reader's task scheduled as long as it has a step.
SpecReaderFair == SpecReader /\ WF_vars(NextReader)

\* The steps run_track itself can take (the select! loop, publisher.rs:139-157
\* and the loop body behind it), the environment left out.
RunTrack ==
    \/ \E sequence \in Sequences : RecvGroup(sequence)
    \/ PollOld \/ OldDone \/ PollNew \/ NewDone
    \/ Cancelled \/ TrackFailed

NextTrack ==
    \/ \E sequence \in Sequences : RecvGroup(sequence)
    \/ PollOld \/ OldDone \/ PollNew \/ NewDone
    \/ Cancelled \/ TrackFailed
    \/ TrackEnds \/ Unsubscribed

SpecTrack == InitTrack /\ [][NextTrack]_vars

(***************************************************************************)
(* Claims about Publisher::run_track.                                      *)
(***************************************************************************)
Futures == 1..Len(tasks)
Alive == {t \in Futures : tasks[t].state = "running"}
Held == {slot[1] : slot \in {old_group, new_group} \ {None}}
NoneEnded == \A t \in Futures : tasks[t].state \notin {"finished", "failed"}
Max(S) == CHOOSE x \in S : \A y \in S : y <= x
Elems(q) == {q[i] : i \in 1..Len(q)}

\* C1: for one subscription at most two group-serving futures exist at any
\* time, one in `old` and one in `new`; every other future ever created has
\* finished (Ok or Err) or has been dropped.
C1_AtMostTwoGroups ==
    /\ Cardinality(Alive) <= 2
    /\ Alive = Held
    /\ (old_group # None /\ new_group # None) => old_group # new_group

\* C1 witness: a third group arrived while two were served; one future was
\* dropped and two are alive.
C1_Witness ==
    /\ Len(tasks) = 3 /\ Cardinality(Alive) = 2
    /\ \E t \in Futures : tasks[t].state = "dropped"

\* A step of RecvGroup, and the sequence it received.
Arrival == Len(arrived') = Len(arrived) + 1
Received == arrived'[Len(arrived')]

\* C2: the newest sequence is always served.  A group whose sequence is >=
\* every sequence received so far is not skipped and its future is placed in
\* `new`; no arrival cancels a future of a higher sequence than its own; a
\* future leaves `new` only by ending, by run_track returning, or by moving
\* to `old` on the arrival of an equal or higher sequence.
C2_NewestServed ==
    [][/\ (Arrival /\ \A i \in 1..Len(arrived) : Received >= arrived[i]) =>
            /\ Len(tasks') = Len(tasks) + 1
            /\ new_group' = Some(Len(tasks'))
            /\ tasks'[Len(tasks')].sequence = Received
            /\ tasks'[Len(tasks')].state = "running"
       /\ \A t \in Futures :
            (Arrival /\ tasks[t].state = "running" /\ tasks'[t].state = "dropped")
                => Received >= tasks[t].sequence
       /\ \A t \in Futures :
            (new_group = Some(t) /\ new_group' # Some(t)) =>
                \/ tasks'[t].state \in {"finished", "failed"}
                \/ pc' # "run"
                \/ /\ Arrival /\ Received >= tasks[t].sequence
                   /\ old_group' = Some(t) /\ tasks'[t].state = "running"
      ]_vars

\* C2 witness: the newest group (3) sits in `new` after a lower sequence (2)
\* arrived behind it and was put in `old`.
C2_Witness ==
    /\ arrived = <<1, 3, 2>> /\ NoneEnded /\ pc = "run"
    /\ new_group = Some(2) /\ old_group = Some(3)

\* C3 (as claimed): fed 1, 2, 3 with no future ending in between, group 1 is
\* cancelled once 3 arrives, 2 is in `old`, 3 in `new`, and the peer has
\* seen group 1's stream opened first and its header written before the
\* abort.
C3_Group1HeaderBeforeAbort ==
    (arrived = <<1, 2, 3>> /\ NoneEnded /\ pc = "run") =>
        /\ tasks[1].state = "dropped"
        /\ old_group = Some(2) /\ new_group = Some(3)
        /\ opened # <<>> /\ opened[1] = 1
        /\ tasks[1].header /\ tasks[1].stream = "reset"

\* C4 (as claimed): fed 3 then 1, group 1 is dropped: no future is created
\* for it, none is placed in a slot and no stream is opened for it.
C4_Fed31Drops1 ==
    arrived = <<3, 1>> =>
        /\ \A t \in Futures : tasks[t].sequence # 1
        /\ 1 \notin Elems(opened)

\* C4 (amended): fed 3 then 1, group 1 is not dropped.  A future is created
\* for it and placed in a slot: in `old`, beside 3 in `new`, while 3's future
\* is still held; it is cancelled by no one as long as no further group
\* arrives.
C4_Fed31Serves1 ==
    (arrived = <<3, 1>> /\ pc = "run") =>
        /\ Len(tasks) = 2 /\ tasks[2].sequence = 1
        /\ tasks[2].state # "dropped"
        /\ tasks[2].state = "running" => 2 \in Held
        /\ (tasks[1].state = "running" /\ tasks[2].state = "running") =>
                (new_group = Some(1) /\ old_group = Some(2))

\* C4 witness: 3 is served in `new`, 1 in `old`, and the stream of group 1
\* has been opened and carries its header.
C4_Witness ==
    /\ arrived = <<3, 1>> /\ pc = "run"
    /\ new_group = Some(1) /\ old_group = Some(2)
    /\ tasks[2].stream = "open" /\ tasks[2].header

\* C11 (as claimed): the subscription task ends with PublishDone(200) not
\* only when Unsubscribe cancels it but also when the track ended: once the
\* track has ended cleanly and no group task is in flight, run_track has
\* returned Ok (publisher.rs:104-111 then enqueues PublishDone with status
\* 200) or has a step to take towards it.
C11_TrackEndYieldsDone ==
    (track = "ended" /\ old_group = None /\ new_group = None
        /\ cancel = "pending")
    => (pc = "ok" \/ ENABLED RunTrack)

\* C12: once Unsubscribe was processed for the subscription (its cancel
\* sender was used, publisher.rs:275-277), no unidirectional stream is
\* opened and no group task is created for it any more, and the one step
\* run_track still takes returns Ok and drops the group tasks in flight:
\* none is left running and every stream they had open is reset.
C12_UnsubscribeDropsGroups ==
    [][cancel = "fired" =>
          /\ opened' = opened
          /\ Len(tasks') = Len(tasks)
          /\ pc' = "run" => tasks' = tasks
          /\ (pc = "run" /\ pc' # "run") =>
                /\ pc' = "ok"
                /\ old_group' = None /\ new_group' = None
                /\ \A t \in Futures :
                      /\ tasks'[t].state # "running"
                      /\ tasks'[t].stream # "open"
                      /\ tasks[t].stream = "open" => tasks'[t].stream = "reset"
                      /\ tasks[t].state = "running" => tasks'[t].state = "dropped"
      ]_vars

\* C12 witness: two groups were being served with their streams open when
\* Unsubscribe arrived; run_track returned, both were dropped and reset.
C12_Witness ==
    /\ cancel = "fired" /\ pc = "ok"
    /\ Len(tasks) = 2 /\ Len(opened) = 2
    /\ \A t \in Futures : tasks[t].state = "dropped" /\ tasks[t].stream = "reset"

\* C13 (as claimed): the group_id values of the streams of one subscription
\* increase in the order the streams are opened.
C13_GroupIdsIncreasing ==
    \A i, j \in 1..Len(opened) : i < j => opened[i] <= opened[j]

\* C13 (amended): every group task opens at most one stream, whose group_id
\* is the sequence of its group, a group the track yielded; the streams
\* opened are exactly those of the tasks that got as far as open_uni.  The
\* group_ids need not increase: a group that arrives behind a newer one is
\* served too.
C13_OneStreamPerTask ==
    /\ Len(tasks) <= Len(arrived)
    /\ \A t \in Futures : tasks[t].sequence \in Elems(arrived)
    /\ \A t \in Futures : tasks[t].header => tasks[t].stream # "none"
    /\ \A v \in Sequences :
          Cardinality({i \in 1..Len(opened) : opened[i] = v})
            = Cardinality({t \in Futures : tasks[t].sequence = v
                                            /\ tasks[t].stream # "none"})

\* C13 witness: group 3 then group 1 arrived, both were served, and the
\* streams were opened and got their headers in that order.
C13_Witness ==
    /\ arrived = <<3, 1>> /\ opened = <<3, 1>>
    /\ \A t \in Futures : tasks[t].header /\ tasks[t].stream = "open"

(***************************************************************************)
(* Claims about stream_priority.                                           *)
(***************************************************************************)
\* C5 (as claimed): for one track priority and group sequences s1 < s2 that
\* both fit in 24 bits, the newer group gets the strictly higher priority.
C5_NewerIsHigher ==
    (/\ prio_out # None
     /\ prio_in[1] = prio_in[3]
     /\ prio_in[2] < prio_in[4] /\ prio_in[4] <= SequenceMask) =>
        prio_out[1][2] > prio_out[1][1]

\* C6 (as claimed): a higher track priority wins over the whole range
\* 0..255, whatever the group sequences, compared as signed 32 bit values.
C6_HigherTrackPriorityWins ==
    (prio_out # None /\ prio_in[1] < prio_in[3]) =>
        prio_out[1][2] > prio_out[1][1]

(***************************************************************************)
(* Claims about Control::request_id.                                       *)
(***************************************************************************)
\* C7: whatever the interleaving of the callers, the k-th call on a side
\* returns start + 2(k-1), start being 0 on the client and 1 on the server
\* (so no value is returned twice), an id a caller holds is one that was
\* returned to it alone, and no id of one side is an id of the other.
\* The counter is a u64: the model stays below its wrap.
C7_RequestIdsUnique ==
    /\ \A side \in Sides : \A k \in 1..Len(issued[side]) :
            issued[side][k] = (IF side = "client" THEN 0 ELSE 1) + 2 * (k - 1)
    /\ \A side \in Sides : \A c1, c2 \in Callers :
            (c1 # c2 /\ got[side][c1] # None) => got[side][c1] # got[side][c2]
    /\ \A side \in Sides : \A c \in Callers :
            got[side][c] # None => got[side][c][1] \in Elems(issued[side])
    /\ Elems(issued["client"]) \cap Elems(issued["server"]) = {}

\* C7 witness: both sides allocated, and on the client two callers hold ids
\* at the same time.
C7_Witness ==
    /\ Len(issued["client"]) >= 2 /\ Len(issued["server"]) >= 2
    /\ got["client"]["announce"] # None /\ got["client"]["broadcast1"] # None

(***************************************************************************)
(* The session: claims C8 to C10, under SpecSession.                       *)
(***************************************************************************)
IsPrefix(p, q) == Len(p) <= Len(q) /\ SubSeq(q, 1, Len(p)) = p

\* C8: run_control_read handles the frames strictly in the order received:
\* the frames handled are 1, 2, ... without a gap, the handler of frame i
\* (its state changes and the replies it enqueues) is over, or has ended the
\* loop, before frame i+1 is decoded, the replies are enqueued in the order
\* of the frames that caused them, and run_control_write writes the
\* messages in the order Control::send enqueued them.
C8_InOrder ==
    /\ handled = [i \in 1..Len(handled) |-> i]
    /\ reader = "dispatch" => decoded = Len(handled) + 1
    /\ reader # "dispatch" => decoded = Len(handled)
    /\ \A i \in 1..Len(sent) : sent[i].re <= Len(handled)
    /\ \A i, j \in 1..Len(sent) :
          (i < j /\ sent[i].re # 0 /\ sent[j].re # 0) => sent[i].re <= sent[j].re
    /\ IsPrefix(written, sent)
    /\ session = "running" => sent = written \o queue

\* C8: two frames were handled, each was answered, and both replies were
\* written, behind the MaxRequestId that run enqueued first.
C8_Witness ==
    /\ Len(handled) = 2
    /\ Len(written) >= 3
    /\ \E i, j \in 1..Len(written) :
          i < j /\ written[i].re = 1 /\ written[j].re = 2

\* C9: the session ends with the first of the four tasks of run that
\* returns, Ok or not: at most one of them returns, the transport session is
\* closed exactly once and exactly then, with the literal 0 for Ok, the
\* literal 1 for a transport error and to_code() of the error otherwise.
C9_ClosedOnceByFirst ==
    /\ Len(returned) <= 1
    /\ Len(closes) = Len(returned)
    /\ session = "running" <=> returned = <<>>
    /\ session \in {"running", "closed"}
    /\ returned # <<>> =>
          /\ returned[1].task \in {"subscriber", "publisher", "reader", "writer"}
          /\ returned[1].result = "Ok" => closes[1] = [code |-> "0", err |-> "-"]
          /\ returned[1].result = "Transport" =>
                closes[1] = [code |-> "1", err |-> "-"]
          /\ returned[1].result \notin {"Ok", "Transport"} =>
                closes[1] = [code |-> "to_code", err |-> returned[1].result]

\* C9: the writer failed on the transport while a frame was being handled,
\* and the session was closed with 1.
C9_Witness ==
    /\ session = "closed"
    /\ returned = <<[task |-> "writer", result |-> "Transport"]>>
    /\ closes = <<[code |-> "1", err |-> "-"]>>
    /\ reader = "dispatch"

\* C10: a Subscribe for a namespace without a broadcast in the origin is
\* answered by exactly one SubscribeError with code 404 and its request id:
\* that is the only message the handler enqueues, `subscribes` gets no
\* entry, no task is spawned, and the handler does not end the session (a
\* frame whose body the decoder consumed entirely leaves it running; left
\* over bytes end it with WrongSize after the answer).
C10_NotFound404 ==
    [][(/\ reader = "dispatch"
        /\ handled' # handled
        /\ wire_in[decoded].type = "Subscribe"
        /\ wire_in[decoded].body # "bad"
        /\ wire_in[decoded].ns \notin origin)
       => LET f == wire_in[decoded]
              m == [type |-> "SubscribeError", request_id |-> f.request_id,
                    code |-> 404, ns |-> "-", re |-> decoded]
          IN  /\ sent' = Append(sent, m)
              /\ queue' = Append(queue, m)
              /\ subscribes' = subscribes
              /\ subs' = subs
              /\ f.body = "exact" =>
                    /\ session' = "running" /\ reader' = "decode"
                    /\ returned' = <<>> /\ closes' = <<>>
              /\ f.body = "extra" =>
                    returned' = <<[task |-> "reader", result |-> "WrongSize"]>>
      ]_vars

\* C10: a Subscribe for a missing broadcast was answered with 404, the
\* answer was written, nothing is subscribed and the session is running.
C10_Witness ==
    /\ session = "running" /\ reader = "decode"
    /\ \E i \in 1..Len(written) :
          /\ written[i].type = "SubscribeError" /\ written[i].code = 404
          /\ written[i].re # 0
          /\ wire_in[written[i].re].type = "Subscribe"
          /\ wire_in[written[i].re].request_id = written[i].request_id
    /\ subscribes = {} /\ subs = <<>>

(***************************************************************************)
(* The Subscriber: claims under SpecSubscriber.                            *)
(***************************************************************************)
Tracks == 1..Len(sub_tracks)
IsActive(t) == \E e \in sub_subscribes :
                  e.request_id = sub_tracks[t].request_id /\ e.track = t

\* C14 (as claimed): when track.unused() completes for an active
\* subscription while the session runs, run_subscribe sends Unsubscribe with
\* the subscription's request id and aborts the track.
C14_UnusedSendsUnsubscribe ==
    [][\A t \in Tracks :
          (/\ sub_tracks[t].task = "waiting"
           /\ sub_tracks'[t].task = "cancelled"
           /\ IsActive(t) /\ session = "running")
          => /\ sub_tracks'[t].state = "aborted"
             /\ sent' = Append(sent, [type |-> "Unsubscribe",
                                      request_id |-> sub_tracks[t].request_id,
                                      code |-> 0, ns |-> "-", re |-> 0])
      ]_vars

\* A step that hands the Subscriber a control message of this type.
Handling(type) == ctrl_n' = ctrl_n + 1 /\ ctrl_msg'[1].type = type
\* A step that accepts a unidirectional stream, and that stream.
Accepting == Len(streams') = Len(streams) + 1
Accepted == streams'[Len(streams')]

\* C15: PublishDone for an active subscription removes its entry and closes
\* its track producer; SubscribeError removes it and aborts the producer;
\* neither ends the session; and a group stream that names the request id
\* of a subscription ended this way creates no group and fails NotFound.
C15_EndedSubscription ==
    [][/\ \A e \in sub_subscribes :
            (Handling("PublishDone") /\ ctrl_msg'[1].request_id = e.request_id)
            => /\ \A f \in sub_subscribes' : f.request_id # e.request_id
               /\ sub_tracks'[e.track].state = "closed"
               /\ session' = "running"
       /\ \A e \in sub_subscribes :
            (Handling("SubscribeError") /\ ctrl_msg'[1].request_id = e.request_id)
            => /\ \A f \in sub_subscribes' : f.request_id # e.request_id
               /\ sub_tracks'[e.track].state = "aborted"
               /\ session' = "running"
       /\ \A t \in Tracks :
            (/\ Accepting
             /\ Accepted.head.kind = "group" /\ Accepted.head.header = "ok"
             /\ Accepted.head.track_alias = sub_tracks[t].request_id
             /\ sub_tracks[t].state \in {"closed", "aborted"})
            => /\ Accepted.result = "NotFound"
               /\ Accepted.group = "none" /\ Accepted.track = 0
      ]_vars

\* C15 witness: a group of subscription t was being read when PublishDone
\* closed the track; the next stream that named its request id was
\* rejected with NotFound.
C15_Witness ==
    /\ Len(streams) = 2 /\ session = "running"
    /\ streams[1].result = "reading" /\ streams[1].track # 0
    /\ sub_tracks[streams[1].track].state = "closed"
    /\ streams[2].head.track_alias = sub_tracks[streams[1].track].request_id
    /\ streams[2].result = "NotFound" /\ streams[2].group = "none"

\* C16: a PublishNamespace for a path that is in `broadcasts` (announced
\* and not unannounced) fails with Duplicate, which ends the reader and
\* closes the session with the code of that error; the entry, the producer
\* behind it and what was published to the origin stay as they were and
\* nothing is sent for the duplicate.  Checked under SpecAnnounce, with
\* either path announced.
C16_DuplicateAnnounce ==
    [][(/\ Handling("PublishNamespace")
        /\ \E e \in broadcasts : e.path = ctrl_msg'[1].ns)
       => /\ session = "running" /\ session' = "closed"
          /\ returned' = <<[task |-> "reader", result |-> "Duplicate"]>>
          /\ closes' = <<[code |-> "to_code", err |-> "Duplicate"]>>
          /\ broadcasts' = broadcasts
          /\ producers' = producers
          /\ published' = published
          /\ sent' = sent /\ queue' = queue
      ]_vars

\* C16 witness: the path was announced once, answered with
\* PublishNamespaceOk, and announced again: the session is closed with
\* Duplicate and the first broadcast is still recorded, open and published.
C16_Witness ==
    /\ session = "closed"
    /\ returned = <<[task |-> "reader", result |-> "Duplicate"]>>
    /\ ctrl_n = 2 /\ ctrl_msg[1].type = "PublishNamespace"
    /\ broadcasts = {[path |-> ctrl_msg[1].ns, producer |-> 1]}
    /\ producers = <<[path |-> ctrl_msg[1].ns, state |-> "open"]>>
    /\ Len(published) = 1
    /\ Cardinality({i \in 1..Len(sent) : sent[i].type = "PublishNamespaceOk"}) = 1

(***************************************************************************)
(* Claims under SpecAnnounce.                                              *)
(***************************************************************************)
Announced == {e.path : e \in broadcasts}

\* C17 as stated: a PublishNamespaceDone for a path that is not in
\* `broadcasts` fails with NotFound, whatever the subscriber.
C17_UnannounceUnknownFails ==
    [][(Handling("PublishNamespaceDone") /\ ctrl_msg'[1].ns \notin Announced)
            => /\ broadcasts' = broadcasts
               /\ returned' = <<[task |-> "reader", result |-> "NotFound"]>>
      ]_vars

\* C17, amended: announce and unannounce are paired on a subscriber that has
\* an origin.  There a PublishNamespace for a path not in `broadcasts` adds
\* exactly that path, a PublishNamespaceDone for a path in it removes
\* exactly that path and closes the producer removed, a
\* PublishNamespaceDone for a path not in it fails with NotFound and leaves
\* the map alone.  A subscriber without an origin keeps the map empty and
\* the session running on both messages.  Nothing else changes the map, each
\* entry has its own open producer, and every producer no longer in the map
\* is closed.
C17_AnnouncePaired ==
    [][/\ (Handling("PublishNamespace") /\ ctrl_msg'[1].ns \notin Announced
                /\ sub_origin)
            => /\ Announced' = Announced \cup {ctrl_msg'[1].ns}
               /\ session' = "running"
       /\ ((Handling("PublishNamespace") \/ Handling("PublishNamespaceDone"))
                /\ ~sub_origin)
            => /\ broadcasts' = {} /\ producers' = <<>>
               /\ session' = "running" /\ returned' = <<>>
       /\ (Handling("PublishNamespaceDone") /\ ctrl_msg'[1].ns \in Announced)
            => /\ Announced' = Announced \ {ctrl_msg'[1].ns}
               /\ \A e \in broadcasts :
                     e.path = ctrl_msg'[1].ns
                        => producers'[e.producer].state = "closed"
               /\ session' = "running"
       /\ (Handling("PublishNamespaceDone") /\ ctrl_msg'[1].ns \notin Announced
                /\ sub_origin)
            => /\ broadcasts' = broadcasts /\ producers' = producers
               /\ returned' = <<[task |-> "reader", result |-> "NotFound"]>>
               /\ session' = "closed"
       /\ ~(Handling("PublishNamespace") \/ Handling("PublishNamespaceDone"))
            => broadcasts' = broadcasts /\ producers' = producers
       /\ \A e \in broadcasts' :
            /\ producers'[e.producer] = [path |-> e.path, state |-> "open"]
            /\ \A f \in broadcasts' : f.path = e.path => f = e
       /\ \A p \in 1..Len(producers') :
            producers'[p].state = "open"
                => [path |-> producers'[p].path, producer |-> p] \in broadcasts'
      ]_vars

\* C17 witness: "a" and "b" were announced and "a" unannounced: the map
\* holds "b" alone, the producer of "a" is closed, the session runs.
C17_Witness ==
    /\ ctrl_n = 3 /\ session = "running" /\ sub_origin
    /\ ctrl_msg[1] = [type |-> "PublishNamespaceDone", request_id |-> 0,
                      track_alias |-> 0, ns |-> "a"]
    /\ broadcasts = {[path |-> "b", producer |-> 2]}
    /\ producers = <<[path |-> "a", state |-> "closed"],
                     [path |-> "b", state |-> "open"]>>

(***************************************************************************)
(* Track aliases and data streams: claims under SpecSubscriber.            *)
(***************************************************************************)
\* Alias a is bound to the subscription of entry e, and to no other.
Bound(e, a) ==
    /\ e.alias = Some(a)
    /\ AliasEntries(a) = {[alias |-> a, request_id |-> e.request_id]}
    /\ \A f \in sub_subscribes : f.alias = Some(a) => f = e

\* C18 as stated: once SubscribeOk gave the active subscription r the alias
\* a, different from r, a group stream whose header carries a is handed to
\* the track of r.
C18_AliasAlwaysHonoured ==
    [][\A e \in sub_subscribes :
          (/\ e.alias # None
           /\ Accepting /\ Accepted.head.kind = "group"
           /\ Accepted.head.header = "ok"
           /\ Accepted.head.track_alias = e.alias[1])
          => Accepted.track = e.track
      ]_vars

\* C18, amended: SubscribeOk with request id r and alias a # r for an active
\* subscription binds a to r; while the peer gives a to no other
\* subscription and r stays active the binding stays; and a group stream
\* whose header carries a bound alias is handed to the track of r, which
\* creates the group or rejects it as Old.
C18_AliasHonoured ==
    [][/\ (/\ Handling("SubscribeOk")
           /\ ctrl_msg'[1].track_alias # ctrl_msg'[1].request_id
           /\ SubEntries(ctrl_msg'[1].request_id) # {})
          => /\ [alias |-> ctrl_msg'[1].track_alias,
                 request_id |-> ctrl_msg'[1].request_id] \in aliases'
             /\ \A e \in sub_subscribes' :
                   e.request_id = ctrl_msg'[1].request_id
                      => e.alias = Some(ctrl_msg'[1].track_alias)
       /\ \A e \in sub_subscribes : \A a \in Aliases :
             (/\ Bound(e, a)
              /\ ~(Handling("SubscribeOk") /\ ctrl_msg'[1].track_alias = a)
              /\ e \in sub_subscribes')
             => /\ AliasEntries(a)' = AliasEntries(a)
                /\ \A f \in sub_subscribes' : f.alias = Some(a) => f = e
       /\ \A e \in sub_subscribes : \A a \in Aliases :
             (/\ Bound(e, a)
              /\ Accepting /\ Accepted.head.kind = "group"
              /\ Accepted.head.header = "ok"
              /\ Accepted.head.track_alias = a)
             => /\ Accepted.track = e.track
                /\ Accepted.result \in {"reading", "Old"}
                /\ Accepted.result = "reading" => Accepted.group = "open"
      ]_vars

\* C18 witness: a stream carrying alias 5 was accepted while 5 was bound to
\* an active subscription, and its group was created on that track.
C18_Witness ==
    \E i \in 1..Len(streams) : \E e \in sub_subscribes :
        /\ streams[i].head.track_alias = 5 /\ Bound(e, 5)
        /\ e.request_id # 5
        /\ streams[i].track = e.track /\ streams[i].group = "open"

\* Stream i has failed in this step: at its acceptance, or while its group
\* was being read.
FailsNow(i) ==
    /\ streams'[i].result \notin {"reading", "Ok"}
    /\ i > Len(streams) \/ streams[i].result = "reading"

\* C19: an error on a unidirectional data stream ends that stream only.
\* The step in which a stream fails leaves the session as it was, run not
\* returned, no message sent, the subscriptions, aliases, tracks and
\* announces as they were and every other stream and its group untouched;
\* the failed stream is aborted or dropped and leaves no open group; and
\* as long as the session runs, run accepts the next stream.
C19_StreamErrorIsLocal ==
    /\ []((session = "running" /\ Len(streams) < MaxStreams)
            => ENABLED (\E h \in StreamHeads : \E fresh \in BOOLEAN :
                            AcceptStream(h, fresh)))
    /\ [][\A i \in 1..Len(streams') :
            FailsNow(i)
            => /\ session' = session
               /\ returned' = returned /\ closes' = closes
               /\ queue' = queue /\ sent' = sent
               /\ sub_subscribes' = sub_subscribes /\ aliases' = aliases
               /\ sub_tracks' = sub_tracks
               /\ broadcasts' = broadcasts /\ producers' = producers
               /\ \A j \in 1..Len(streams) : j # i => streams'[j] = streams[j]
               /\ streams'[i].end \in {"abort", "drop"}
               /\ streams'[i].group \in {"none", "aborted"}
         ]_vars

\* C19 witness: every kind of failure beside a group that was read to its
\* end: the first stream failed and the second one, accepted after it, was
\* delivered and closed, the session still running with its subscription.
C19_Witness ==
    /\ Len(streams) = 2 /\ session = "running" /\ returned = <<>>
    /\ streams[1].result \notin {"reading", "Ok"}
    /\ streams[2].result = "Ok" /\ streams[2].group = "closed"
    /\ \E e \in sub_subscribes : e.track = streams[2].track

(***************************************************************************)
(* Frames of one group: claims under SpecFrames.                           *)
(***************************************************************************)
\* The frame the subscriber should end with for a payload written.
FrameOf(payload) ==
    [size |-> Len(payload), data |-> payload, state |-> "closed"]

\* C20: no frame is lost within a group.  At every moment the frames the
\* subscriber has created are the first frames written, in order, each
\* with the size written, all but the last one complete and the last one
\* holding a prefix of its payload; run_group fails for no reason but a
\* cancellation; while the stream is not cancelled some step of the two
\* tasks is possible until the subscriber is done; and when it is done the
\* publisher has finished the stream, and the group is closed with exactly
\* the frames written, sizes and bytes.
C20_NoFrameLost ==
    /\ Len(group_out.frames) <= Len(group_in)
    /\ \A i \in 1..Len(group_out.frames) :
          /\ group_out.frames[i].size = Len(group_in[i])
          /\ IsPrefix(group_out.frames[i].data, group_in[i])
          /\ group_out.frames[i].state = "closed"
                => group_out.frames[i] = FrameOf(group_in[i])
          /\ i < Len(group_out.frames) => group_out.frames[i].state = "closed"
    /\ sub_pc.at \in {"decode_maybe", "size", "status", "run_frame", "Ok",
                      "Cancel"}
    /\ ~uni.stopped => (sub_pc.at = "Ok" \/ ENABLED RunGroups)
    /\ sub_pc.at = "Ok"
          => /\ pub_pc.at = "Ok" /\ ~uni.stopped
             /\ group_out = [state |-> "closed",
                             frames |-> [i \in 1..Len(group_in) |->
                                            FrameOf(group_in[i])]]

\* C20 witness: an empty frame and a frame of two bytes were written, the
\* stream was not cancelled, and the subscriber closed the group with both.
C20_Witness ==
    /\ group_in = << <<>>, <<0, 3>> >>
    /\ sub_pc.at = "Ok" /\ ~uni.stopped
    /\ group_out.state = "closed"
    /\ Len(group_out.frames) = 2
    /\ group_out.frames[1] = FrameOf(<<>>)
    /\ group_out.frames[2] = FrameOf(<<0, 3>>)

(***************************************************************************)
(* The control reader and the frames it refuses: claims under SpecSession. *)
(***************************************************************************)
\* The error of the arm of the match a refused type falls in.
RefusedWith(type) ==
    IF type = "Unknown" THEN "UnexpectedMessage" ELSE "Unsupported"

\* C21: a control frame of an unknown type, or of a Fetch type, ends the
\* reader with the error of its arm and closes the session with that
\* error; it is the last frame dispatched, no frame behind it is read, and
\* nothing was enqueued on its behalf.
C21_RefusedTypeStops ==
    \A k \in 1..Len(handled) :
       wire_in[handled[k]].type \in {"Unknown", "Fetch"}
       => /\ k = Len(handled) /\ decoded = handled[k]
          /\ reader = "returned" /\ session = "closed"
          /\ returned = <<[task |-> "reader",
                           result |-> RefusedWith(wire_in[handled[k]].type)]>>
          /\ closes = <<[code |-> "to_code",
                         err |-> RefusedWith(wire_in[handled[k]].type)]>>
          /\ \A i \in 1..Len(sent) : sent[i].re # handled[k]

\* C21 witness: a Fetch frame was dispatched and a Subscribe arrived behind
\* it; the session is closed and the Subscribe was never read.
C21_Witness ==
    /\ Len(wire_in) = 2 /\ wire_in[1].type = "Fetch"
    /\ wire_in[2].type = "Subscribe"
    /\ handled = <<1>> /\ decoded = 1 /\ session = "closed"

\* The types whose arm decodes the body and calls a handler.
Dispatched == {"Subscribe", "Unsubscribe", "MaxRequestId",
               "TrackStatusRequest"}

\* C22 (as claimed): a frame of a dispatched type whose typed decoder leaves
\* bytes of the body over ends the reader with WrongSize and closes the
\* session.
C22_TrailingBytesWrongSize ==
    \A k \in 1..Len(handled) :
       (/\ wire_in[handled[k]].type \in Dispatched
        /\ wire_in[handled[k]].body = "extra")
       => /\ session = "closed" /\ reader = "returned"
          /\ returned = <<[task |-> "reader", result |-> "WrongSize"]>>

(***************************************************************************)
(* Claims about the wire codec.                                            *)
(***************************************************************************)
Out == codec_out[1]
Applied(op, type) ==
    codec_in # None /\ codec_out # None /\ codec_in.op = op
    /\ codec_in.type = type

\* The buffer is a message of the type that carries parameters: its head
\* followed by an empty block is a whole message, and what follows the head
\* here is a whole Parameters block of at least one entry.
CarriesParameters ==
    /\ codec_in.op = "decode" /\ codec_in.type # "Group"
    /\ LET bare == Decode(codec_in.type, codec_in.head \o <<0>>)
           block == DecodeParameters(codec_in.params)
       IN  /\ bare.err = "Ok" /\ bare.rest = <<>>
           /\ block.err = "Ok" /\ block.rest = <<>>
           /\ DOMAIN block.value # {}

\* C23 (as claimed): decoding a PublishNamespace that carries parameters (a
\* parameter count above zero) is rejected with an error, while a Subscribe
\* that carries parameters decodes to the fields of its head, the parameters
\* ignored.
C23_AnnounceRejectsParameters ==
    (codec_in # None /\ codec_out # None /\ CarriesParameters) =>
        /\ codec_in.type = "PublishNamespace" => Out.decoded.err # "Ok"
        /\ codec_in.type = "Subscribe" =>
               /\ Out.decoded.err = "Ok" /\ Out.decoded.rest = <<>>
               /\ Out.decoded.value
                      = Decode("Subscribe", codec_in.head \o <<0>>).value

\* The type id a buffer starts with, and the id the four flags of a header
\* stand for.
TypeId == DecodeU64(codec_in.params)
FlagsId(m) ==
    16 + (IF m.has_extensions THEN 1 ELSE 0) + (IF m.has_subgroup THEN 2 ELSE 0)
       + (IF m.has_subgroup_object THEN 4 ELSE 0)
       + (IF m.has_end THEN 8 ELSE 0)
BothSubgroupIds == {22, 23, 30, 31}

\* C24: Group::decode rejects every type id outside 0x10..=0x1D with
\* InvalidValue and rejects every type id that has both the explicit-subgroup
\* flag (0x02) and the first-object-is-subgroup flag (0x04); a header it
\* accepts has the four flags of the low bits of the id; and what
\* Group::encode writes for a header that has not both flags decodes to the
\* same request id, group id and flags, using all the bytes.
C24_GroupHeaderCodec ==
    /\ (Applied("decode", "Group") /\ TypeId.err = "Ok") =>
           /\ TypeId.value \notin 16..29 => Out.decoded.err = "InvalidValue"
           /\ TypeId.value \in BothSubgroupIds => Out.decoded.err # "Ok"
           /\ Out.decoded.err = "Ok" =>
                  /\ FlagsId(Out.decoded.value) = TypeId.value
                  /\ TypeId.value \notin BothSubgroupIds
    /\ (Applied("encode", "Group")
        /\ ~(codec_in.msg.has_subgroup /\ codec_in.msg.has_subgroup_object)) =>
           /\ ~Out.panic
           /\ Out.decoded.err = "Ok" /\ Out.decoded.rest = <<>>
           /\ Out.decoded.value = codec_in.msg

\* C24 witness: a header with an explicit subgroup and the end flag, its
\* request id and group id of two bytes each, was written (type id 0x1A)
\* and read back.
C24_Witness ==
    /\ Applied("encode", "Group")
    /\ codec_in.msg.has_subgroup /\ codec_in.msg.has_end
    /\ codec_in.msg.request_id = 64 /\ codec_in.msg.group_id = 500
    /\ Out.encoded = <<26, 64, 64, 65, 244, 0, 0>>
    /\ Out.decoded.value = codec_in.msg

\* C25 (as claimed): for every control message type and every value m of it,
\* decode(encode(m)) is m in all its fields and uses exactly the encoded
\* bytes: Subscribe (a nested namespace too), SubscribeOk, SubscribeError,
\* PublishNamespace, PublishNamespaceDone, PublishNamespaceCancel, Unsubscribe.
C25_RoundTrip ==
    \A type \in MessageTypes :
        Applied("encode", type) =>
            /\ ~Out.panic
            /\ Out.decoded.err = "Ok" /\ Out.decoded.rest = <<>>
            /\ Out.decoded.value = codec_in.msg

(***************************************************************************)
(* Claims about the CMAF ingest.                                           *)
(***************************************************************************)
Fed_(i, kind) == i \in 1..Len(imp_log) /\ imp_log[i].atom.kind = kind

\* Before the i-th atom a moov was processed.
MoovBefore(i) ==
    \E j \in 1..(i - 1) : Fed_(j, "moov") /\ imp_log[j].atom.ok

\* Before the i-th atom a moof arrived that no mdat was extracted with: what
\* the atoms fed so far tell, the fields of Import not looked at.
MoofBefore(i) ==
    LET RECURSIVE Pending(_)
        Pending(k) ==
            IF k = 0 THEN FALSE
            ELSE IF imp_log[k].atom.kind = "moof" THEN TRUE
            ELSE IF imp_log[k].atom.kind = "mdat" /\ MoovBefore(k)
            THEN FALSE
            ELSE Pending(k - 1)
    IN  Pending(i - 1)

\* The number of moof atoms up to the i-th atom that were kept.
MoofsKept(i) ==
    Cardinality({j \in 1..i : Fed_(j, "moof") /\ imp_log[j].result = "Ok"})

\* C26: over any sequence of atoms fed to Import, a moof that arrives while
\* an earlier moof is pending fails with DuplicateBox(moof); an mdat with no
\* moov processed fails with MissingBox(moov), and one with a moov but no
\* pending moof fails with MissingBox(moof); every other mdat is extracted
\* with the pending moof, the latest one kept, and takes it, so that no moof
\* is used by two mdat atoms and none is pending behind an extraction.
C26_MoofMdatPairs ==
    /\ \A i \in 1..Len(imp_log) :
           /\ (Fed_(i, "moof") /\ MoofBefore(i)) =>
                  imp_log[i].result = "DuplicateBox(moof)"
           /\ (Fed_(i, "moof") /\ ~MoofBefore(i)) => imp_log[i].result = "Ok"
           /\ (Fed_(i, "mdat") /\ ~MoovBefore(i)) =>
                  /\ imp_log[i].result = "MissingBox(moov)"
                  /\ imp_log[i].moof = 0
           /\ (Fed_(i, "mdat") /\ MoovBefore(i) /\ ~MoofBefore(i)) =>
                  /\ imp_log[i].result = "MissingBox(moof)"
                  /\ imp_log[i].moof = 0
           /\ (Fed_(i, "mdat") /\ MoovBefore(i) /\ MoofBefore(i)) =>
                  /\ imp_log[i].result
                         \notin {"MissingBox(moov)", "MissingBox(moof)"}
                  /\ imp_log[i].moof = MoofsKept(i)
                  /\ \A j \in 1..(i - 1) : imp_log[j].moof # imp_log[i].moof
    /\ (imp.moof # None) = MoofBefore(Len(imp_log) + 1)

\* C26 witness: after the moov two fragments were extracted, each mdat with
\* the moof before it, and a third moof was followed by another moof, which
\* was refused.
C26_Witness ==
    /\ Len(imp_log) = 7
    /\ [i \in 1..7 |-> imp_log[i].atom.kind]
           = <<"moov", "moof", "mdat", "moof", "mdat", "moof", "moof">>
    /\ [i \in 1..7 |-> imp_log[i].moof] = <<0, 0, 1, 0, 2, 0, 0>>
    /\ imp_log[7].result = "DuplicateBox(moof)"
    /\ imp.moof # None

\* All frames written so far, in the order they were written.
Written ==
    LET RECURSIVE Upto(_)
        Upto(i) == IF i = 0 THEN <<>> ELSE Upto(i - 1) \o imp_log[i].frames
    IN  Upto(Len(imp_log))

Audio(f) == f.track \in AudioTracks
VideoKey(f) == f.track \in VideoTracks /\ f.keyframe

\* The n-th frame written is the first of its track since the most recent
\* video keyframe, or since the start.
FirstSince(n) ==
    \A k \in 1..(n - 1) :
        Written[k].track = Written[n].track =>
            \E j \in (k + 1)..(n - 1) : VideoKey(Written[j])

\* More than ten seconds lie between the n-th frame written and the last
\* keyframe of its track before it.
TenSecondsSince(n) ==
    \E k \in 1..(n - 1) :
        /\ Written[k].track = Written[n].track /\ Written[k].keyframe
        /\ \A j \in (k + 1)..(n - 1) :
               ~(Written[j].track = Written[n].track /\ Written[j].keyframe)
        /\ Written[n].timestamp - Written[k].timestamp > TenSeconds

\* C27: an audio sample is a keyframe exactly when it is the first sample of
\* its track since the most recent video keyframe (or since the start of
\* the ingest), or when more than 10 seconds have passed since the last
\* keyframe of its track; and behind a video keyframe no audio track has a
\* last-keyframe record, so that the next sample of each is a keyframe.
C27_AudioKeyframes ==
    /\ \A n \in 1..Len(Written) :
           Audio(Written[n]) =>
               (Written[n].keyframe <=> (FirstSince(n) \/ TenSecondsSince(n)))
    /\ (Written # <<>> /\ VideoKey(Written[Len(Written)])) =>
           DOMAIN imp.last_keyframe \cap AudioTracks = {}

\* C27 witness: audio track 2 started with a keyframe; a video keyframe
\* followed and removed its record; the next sample of track 2, at the same
\* time as its last keyframe, was a keyframe again, and the sample 10.5
\* seconds later was a keyframe by the 10 second rule.
C27_Witness ==
    /\ Len(Written) = 4
    /\ [n \in 1..4 |-> Written[n].track] = <<2, 1, 2, 2>>
    /\ [n \in 1..4 |-> Written[n].keyframe] = <<TRUE, TRUE, TRUE, TRUE>>
    /\ [n \in 1..4 |-> Written[n].timestamp] = <<0, 0, 0, 10500000>>
    /\ imp.last_keyframe[2] = 10500000

\* The moof the i-th atom, an mdat, was extracted with.
MoofOf(i) ==
    LET j == CHOOSE j \in 1..(i - 1) :
                 /\ Fed_(j, "moof") /\ imp_log[j].result = "Ok"
                 /\ \A k \in (j + 1)..(i - 1) : ~Fed_(k, "moof")
    IN  imp_log[j].atom

\* Where the k-th sample of the trun lies in the payload of the mdat, by the
\* arithmetic of the integers: base_data_offset + data_offset - moof size -
\* mdat header size, or base_data_offset without a data_offset, and the
\* sizes of the samples before it.
SampleStart(m, k) ==
    LET RECURSIVE Sum(_)
        Sum(n) == IF n = 0 THEN 0 ELSE Sum(n - 1) + m.sizes[n]
    IN  (IF m.data_offset = None THEN m.base
         ELSE m.base + m.data_offset[1] - MoofSize - HeaderSize) + Sum(k - 1)

Outside(m, k, len) ==
    SampleStart(m, k) < 0 \/ SampleStart(m, k) + m.sizes[k] > len

\* C28 (as claimed): every frame written is a range [offset, offset + size)
\* inside the payload of the mdat; a trun whose data_offset is negative or
\* below the moof size, and a sample whose offset plus size falls outside
\* the mdat, give InvalidOffset: no slice out of range and no underflow in
\* base_data_offset + data_offset - moof size - mdat header size.
C28_OffsetsChecked ==
    \A i \in 1..Len(imp_log) :
        (Fed_(i, "mdat") /\ imp_log[i].moof # 0) =>
            LET m == MoofOf(i)
                len == imp_log[i].atom.len
                frames == imp_log[i].frames
            IN  /\ \A n \in 1..Len(frames) :
                       /\ frames[n].offset = SampleStart(m, n)
                       /\ frames[n].offset + frames[n].size <= len
                /\ imp_log[i].result # "panic"
                /\ (m.data_offset # None /\ m.data_offset[1] < MoofSize) =>
                       imp_log[i].result = "InvalidOffset"
                /\ (\E k \in 1..Len(m.sizes) : Outside(m, k, len)) =>
                       imp_log[i].result = "InvalidOffset"

\* C29: in run_track a group whose sequence is lower than the sequence held in
\* the occupied `old` slot is dropped entirely: the step that receives it
\* creates no serving task, opens no stream, and leaves both slots and their
\* sequences as they were.
OlderThanOld(sequence) == old_sequence # None /\ sequence < old_sequence[1]

C29_OlderThanOldDropped ==
    [][(/\ pc = "run"
        /\ Len(arrived') = Len(arrived) + 1
        /\ OlderThanOld(arrived'[Len(arrived')]))
       => /\ tasks' = tasks /\ opened' = opened
          /\ old_group' = old_group /\ new_group' = new_group
          /\ old_sequence' = old_sequence /\ new_sequence' = new_sequence
          /\ pc' = "run"]_vars

\* C29 witness: groups 2 and 3 are being served from the `old` and `new` slots
\* and group 1, which arrived after them, left no task behind.
C29_Witness ==
    /\ pc = "run" /\ Len(arrived) = 3 /\ arrived[3] = 1
    /\ old_sequence = Some(2) /\ new_sequence = Some(3)
    /\ Len(tasks) = 2
    /\ old_group # None /\ tasks[old_group[1]].sequence = 2
    /\ new_group # None /\ tasks[new_group[1]].sequence = 3
    /\ tasks[old_group[1]].state \notin {"dropped", "failed"}
    /\ tasks[new_group[1]].state \notin {"dropped", "failed"}

\* C30: when a per-group serving task ends with an error, run_track only
\* clears that task's slot: run_track keeps running (the error is not its
\* result), every other task is left as it was and a task that was in a slot
\* is still in one, and run_track returns an error, the one cause of a
\* SubscribeError, only on a step where the track itself has failed and no
\* task ends.
Serving(t) == old_group = Some(t) \/ new_group = Some(t)

FailsOn(t) == tasks[t].state = "running" /\ tasks'[t].state = "failed"

C30_GroupErrorStaysInTask ==
    [][/\ \A t \in 1..Len(tasks) :
            FailsOn(t) =>
                /\ pc = "run" /\ pc' = "run"
                /\ Serving(t)
                /\ old_group' # Some(t) /\ new_group' # Some(t)
                /\ Len(tasks') = Len(tasks)
                /\ \A u \in 1..Len(tasks) \ {t} :
                       /\ tasks'[u] = tasks[u]
                       /\ Serving(u) =>
                              old_group' = Some(u) \/ new_group' = Some(u)
       /\ (pc = "run" /\ pc' = "err") =>
              /\ track = "error"
              /\ \A t \in 1..Len(tasks) : ~FailsOn(t)]_vars

\* C30 witness: the task of group 1 ended with an error; group 2, in flight
\* beside it, is still served, and group 3, which arrived after the error,
\* is served too, both with their header written.
C30_Witness ==
    /\ pc = "run" /\ arrived = <<1, 2, 3>> /\ Len(tasks) = 3
    /\ tasks[1].state = "failed"
    /\ old_group = Some(2) /\ new_group = Some(3)
    /\ tasks[2].state = "running" /\ tasks[2].header
    /\ tasks[3].state = "running" /\ tasks[3].header
    /\ opened = <<1, 2, 3>>

\* C32: the assertion `old_group.is_none()` of run_track holds on every
\* execution: run_track never panics, and in every reachable state each slot
\* holds a future exactly when it holds a sequence, the sequence being that of
\* the future's group.
Paired(slot, seq) ==
    /\ slot = None <=> seq = None
    /\ slot # None => /\ slot[1] \in 1..Len(tasks)
                      /\ tasks[slot[1]].sequence = seq[1]

C32_AssertHolds ==
    /\ pc # "panic"
    /\ Paired(old_group, old_sequence)
    /\ Paired(new_group, new_sequence)

\* C32 witness: the assertion was evaluated behind a taken `old` slot: group 3
\* arrived while groups 1 and 2 were held, the future of group 1 was dropped
\* and run_track goes on.
C32_Witness ==
    /\ pc = "run" /\ arrived = <<1, 2, 3>> /\ Len(tasks) = 3
    /\ tasks[1].state = "dropped"
    /\ old_group = Some(2) /\ new_group = Some(3)

\* C33: in every reachable state of run_track the `old` slot is occupied only
\* if the `new` slot is, and when both are occupied old_sequence is at most
\* new_sequence.
C33_OldBelowNew ==
    /\ old_group # None => new_group # None
    /\ old_sequence # None => new_sequence # None
    /\ (old_sequence # None /\ new_sequence # None) =>
           old_sequence[1] <= new_sequence[1]

\* C33 witness: both slots are occupied after each of the three kinds of step:
\* groups 1 and 2 arrived, the task of group 2 (in `new`) completed and group 1
\* was promoted, then group 3 arrived and group 1 went back to `old`.
C33_Witness ==
    /\ pc = "run" /\ arrived = <<1, 2, 3>> /\ Len(tasks) = 3
    /\ tasks[2].state \in {"finished", "failed"}
    /\ old_group = Some(1) /\ old_sequence = Some(1)
    /\ new_group = Some(3) /\ new_sequence = Some(3)
    /\ tasks[1].state = "running"

\* C34 (as claimed): once the track has ended cleanly, run_track returns only
\* with both slots empty and with Ok, so that the PublishDone of the
\* subscription follows the end of every group task that was in flight.
C34_ReturnsAfterSlotsEmpty ==
    [][(track = "ended" /\ pc = "run" /\ pc' # "run") =>
          /\ pc' = "ok"
          /\ old_group = None /\ new_group = None
          /\ tasks' = tasks]_vars

\* C35 (as claimed): every group task placed in a slot is polled, its stream
\* opened and its group header written, before it is cancelled or replaced:
\* no step drops a future whose header is not written.
C35_PolledBeforeDropped ==
    [][\A t \in 1..Len(tasks) :
          (tasks[t].state = "running" /\ tasks'[t].state = "dropped") =>
              /\ tasks[t].stream # "none"
              /\ tasks[t].header]_vars

\* C36 (as claimed): on the publisher every running per-subscription task has
\* its own cancel sender stored in `subscribes` under its request id until an
\* Unsubscribe for that id is processed or the task finishes, whatever the
\* peer sends, a second Subscribe with the same request id included.
UnsubscribeHandled(id) ==
    \E i \in 1..Len(handled) :
        /\ wire_in[handled[i]].type = "Unsubscribe"
        /\ wire_in[handled[i]].request_id = id

C36_OwnSenderStored ==
    \A t \in 1..Len(subs) :
        subs[t].state = "run" =>
            \/ [request_id |-> subs[t].request_id, task |-> t] \in subscribes
            \/ UnsubscribeHandled(subs[t].request_id)

\* C38 (as claimed): a control message rejected with the wrong-size error has
\* no handler effect: when the reader has returned WrongSize for the frame it
\* read last, no message was enqueued on behalf of that frame and no
\* subscription exists under its request id.
RejectedWrongSize ==
    /\ reader = "returned"
    /\ \E k \in 1..Len(returned) :
           returned[k] = [task |-> "reader", result |-> "WrongSize"]

C38_WrongSizeNoEffect ==
    RejectedWrongSize =>
        /\ \A j \in 1..Len(sent) : sent[j].re # decoded
        /\ wire_in[decoded].type = "Subscribe" =>
               \A t \in 1..Len(subs) :
                   subs[t].request_id # wire_in[decoded].request_id

\* C31: for every track requested the subscriber records the producer in
\* `subscribes` under a freshly allocated request id before the Subscribe with
\* that id is enqueued, and while the subscription is active (its Subscribe
\* was sent, its task waits, its producer is open) the entry is there: no two
\* tracks share a request id, a Subscribe is enqueued for a track whose
\* producer is open only when its id has its entry, the entry of an active
\* subscription names its track, and a group
\* stream that resolves to the id of an active subscription is not answered
\* with NotFound.
ActiveSub(t) == sub_tracks[t].task = "waiting" /\ sub_tracks[t].state = "open"

RecordedSub(t) ==
    \E e \in sub_subscribes :
        e.request_id = sub_tracks[t].request_id /\ e.track = t

SubscribeEnqueued ==
    /\ Len(sent') = Len(sent) + 1
    /\ sent'[Len(sent')].type = "Subscribe"

StreamAccepted == Len(streams') = Len(streams) + 1

C31_RecordedBeforeSubscribe ==
    [][/\ \A t \in 1..Len(sub_tracks') :
            /\ (ActiveSub(t))' => (RecordedSub(t))'
            /\ \A u \in 1..Len(sub_tracks') :
                   sub_tracks'[t].request_id = sub_tracks'[u].request_id
                       => t = u
       /\ SubscribeEnqueued =>
              \E t \in 1..Len(sub_tracks) :
                  /\ sub_tracks[t].request_id = sent'[Len(sent')].request_id
                  /\ sub_tracks[t].state = "open" => RecordedSub(t)
       /\ StreamAccepted =>
              LET st == streams'[Len(streams')]
              IN  (/\ st.head.kind = "group" /\ st.head.header = "ok"
                   /\ \E t \in 1..Len(sub_tracks) :
                          /\ ActiveSub(t)
                          /\ sub_tracks[t].request_id
                                 = Resolve(st.head.track_alias))
                  => st.result # "NotFound"]_vars

\* C31 witness: the Subscribe of request id 0 was sent, a SubscribeOk for it
\* found the entry and recorded the alias, and a group stream that names the
\* alias found the entry too and is being read.
C31_Witness ==
    /\ \E j \in 1..Len(sent) :
           sent[j].type = "Subscribe" /\ sent[j].request_id = 0
    /\ Len(sub_tracks) >= 1 /\ ActiveSub(1) /\ RecordedSub(1)
    /\ sub_tracks[1].request_id = 0
    /\ \E e \in sub_subscribes : e.request_id = 0 /\ e.alias # None
    /\ \E i \in 1..Len(streams) :
           streams[i].result = "reading" /\ streams[i].track = 1

\* C37 (as claimed): in every reachable state each entry alias -> request id
\* of `aliases` refers to a request id present in `subscribes` whose recorded
\* alias is that alias.
C37_NoStaleAlias ==
    \A a \in aliases :
        \E e \in sub_subscribes :
            e.request_id = a.request_id /\ e.alias = Some(a.alias)

\* C39 (as claimed): read_exact always returns once the stream has ended: if
\* the peer finished the stream before all `size` bytes of the body arrived,
\* read_exact returns, with the bytes or with an error, instead of looping
\* for ever.
C39_ReadExactReturns ==
    (rdr.op = "read_exact" /\ rdr.end = "fin")
        ~> (rdr.pc \in {"Ok", "Short", "Transport"})

\* C40 (as claimed): for an object whose n extension bytes and size are on the
\* stream, whatever number of them is buffered already, skip(n) does not
\* underflow, consumes exactly n bytes, and the varint decoded next is the
\* object's size.
C40_SkipExact ==
    (rdr.op = "skip" /\ rdr.content = ObjectBytes(rdr.declared)) =>
        /\ rdr.pc \notin {"panic", "Short"}
        /\ rdr.pc \in {"decode", "Ok"} => rdr.skipped = rdr.declared
        /\ rdr.pc = "Ok" => rdr.out = Some(1)


====
